---- MODULE Spec2Model ----
(***************************************************************************)
(* A model of the retrieval/storage core of claude-agent-sdk-go: the       *)
(* go-memdb backed Store (store.go), the BM25 index (search.go), the       *)
(* SkillRegistry (skills) and the ContextBuilder (context.go).             *)
(***************************************************************************)
EXTENDS Integers, Sequences, FiniteSets, TLC

VARIABLES
    db,        \* Store.db: the committed root of the memdb (all tables, all indexes)
    wt,        \* per writer goroutine: its open write transaction, or NoTxn
    snap,      \* a StoreSnapshot handle held by a reader, or NoSnap
    snapSeen,  \* what the five snapshot reads returned when Snapshot() was called
    lastRead,  \* the result of the latest Store or StoreSnapshot read
    res,       \* the result of the latest SkillRegistry.Resolve call, or NoRes
    idx,       \* the BM25Index: docs, df, avgLen
    hits,      \* the result of the latest BM25Index.Search call, or NoHits
    sel,       \* the result of the latest ContextBuilder.SelectTools call, or NoSel
    hookIDCounter, \* the package counter behind nextHookID
    ixCall,    \* the latest BM25Index.Index / Remove / Rebuild call, or NoCall
    hkCall,    \* the latest Store.InsertHook / Hooks.RunPreHooks / executeTools call
    run,       \* the Agent's run loop: its configuration, turn and outcome
    proc       \* per goroutine: the call it is in, with its locals, or Idle

\* The variables of the components other than the Store.
nonStore == <<res, idx, hits, sel, hookIDCounter, ixCall, hkCall, run, proc>>
\* The variables of the concurrent Store other than the committed root.
storeAux == <<wt, snap, snapSeen, lastRead>>
vars ==
    <<db, wt, snap, snapSeen, lastRead, res, idx, hits, sel, hookIDCounter,
      ixCall, hkCall, run, proc>>

-----------------------------------------------------------------------------
(* Bounds and universes                                                    *)

MaxWriters == 2

Writers == 1..MaxWriters

ToolNames == {"t1", "t2"}
SkillNames == {"A", "B", "C"}

\* Lexicographic order of the primary keys used in the model (the radix tree
\* of an index iterates in key order).
StrOrder ==
    <<"A", "B", "C", "D", "E", "F1", "F2", "F3", "F4", "F5", "F6", "F7", "F8",
      "h1", "hook-1", "hook-2", "hook-3", "hook-4",
      "t0", "t1", "t2", "t3",
      "u1", "u2", "u3", "u4", "u5", "u6", "u7", "u8">>

Rank(s) == CHOOSE i \in 1..Len(StrOrder) : StrOrder[i] = s

\* More bundles, each with one tool: with the bundles A, B and C, one more
\* than the ten results SelectTools asks the index for.
FillerNames == <<"F1", "F2", "F3", "F4", "F5", "F6", "F7", "F8">>
FillerSources ==
    <<"skill:F1", "skill:F2", "skill:F3", "skill:F4", "skill:F5", "skill:F6",
      "skill:F7", "skill:F8">>
FillerTools == <<"u1", "u2", "u3", "u4", "u5", "u6", "u7", "u8">>
FillerNo(name) == CHOOSE i \in DOMAIN FillerNames : FillerNames[i] = name

SkillSource(name) ==
    CASE name = "A" -> "skill:A"
      [] name = "B" -> "skill:B"
      [] name = "C" -> "skill:C"
      [] OTHER -> FillerSources[FillerNo(name)]

SeqRange(s) == {s[i] : i \in DOMAIN s}

NoDup(q) == \A i \in DOMAIN q, j \in DOMAIN q : q[i] = q[j] => i = j

NilObj == [nil |-> TRUE]
NoTxn == [open |-> FALSE]
NoSnap == [held |-> FALSE]
NoRead == [op |-> "none"]
NoRes == [done |-> FALSE]
NoHits == [done |-> FALSE]
NoSel == [done |-> FALSE]
NoCall == [done |-> FALSE]
NoRun == [state |-> "none"]

\* The goroutines that call into one registry, index or Hooks object at the
\* same time.
Goroutines == {"g1", "g2"}
Idle == [op |-> "idle"]

\* A call that has returned, until its caller takes the return.
CallReturn(call, name, err) ==
    [op |-> "done", call |-> call, name |-> name, err |-> err]

\* NewBM25Index: no document, no document frequency, average length 0.
\* avgLen is kept as the fraction num/den in lowest terms.
NewBM25Index ==
    [docs |-> [x \in {} |-> 0], df |-> [x \in {} |-> 0],
     avgLen |-> [num |-> 0, den |-> 1]]

-----------------------------------------------------------------------------
(* go-memdb: schema, immutable roots, transactions                         *)

Tables == {"tools", "skills", "hooks"}

\* storeSchema: the indexes of each table.
storeSchema(table) ==
    CASE table = "tools"  -> {"id", "source", "tags"}
      [] table = "skills" -> {"id", "category", "tags"}
      [] table = "hooks"  -> {"id", "pattern"}

\* The field behind the "id" index: ID for a hook, Name for a tool or skill.
Key(obj) == IF "ID" \in DOMAIN obj THEN obj.ID ELSE obj.Name

\* A StringFieldIndex on a field: nothing for the empty string.
StringFieldIndex(val) == IF val = "" THEN {} ELSE {val}

\* A tags index that enters an object under its first tag only.
IndexValsFirstTag(index, obj) ==
    CASE index = "id"       -> StringFieldIndex(Key(obj))
      [] index = "source"   -> StringFieldIndex(obj.Source)
      [] index = "category" -> StringFieldIndex(obj.Category)
      [] index = "pattern"  -> StringFieldIndex(obj.Pattern)
      [] index = "tags"     -> IF obj.Tags = <<>> THEN {} ELSE {obj.Tags[1]}

\* The values under which an object is entered in an index (the Indexer's
\* FromObject): a StringFieldIndex yields the field (nothing when it is
\* empty), a StringSliceFieldIndex yields one value per element.
IndexVals(index, obj) ==
    CASE index = "id"       -> StringFieldIndex(Key(obj))
      [] index = "source"   -> StringFieldIndex(obj.Source)
      [] index = "category" -> StringFieldIndex(obj.Category)
      [] index = "pattern"  -> StringFieldIndex(obj.Pattern)
      [] index = "tags"     -> SeqRange(obj.Tags)

\* AllowMissing of the schema: the indexes an object may have no value for.
AllowMissing(table, index) ==
    \/ index = "tags"
    \/ table = "skills" /\ index = "category"

\* txn.Insert(table, obj) fails on an index without AllowMissing that the
\* object has no value for.
MissingIndex(table, obj) ==
    \E index \in storeSchema(table) :
        ~AllowMissing(table, index) /\ IndexVals(index, obj) = {}

\* NewStore: a memdb with empty tables.
NewStore == [t \in Tables |-> [ix \in storeSchema(t) |-> {}]]

\* txn.First(table, "id", key): the object under the key, or nil.
TxnFirst(root, table, key) ==
    LET found == {e \in root[table]["id"] : e[1] = key}
    IN  IF found = {} THEN NilObj ELSE (CHOOSE e \in found : TRUE)[2]

RECURSIVE SortObjs(_)
SortObjs(S) ==
    IF S = {} THEN <<>>
    ELSE LET m == CHOOSE o \in S : \A p \in S : Rank(Key(o)) <= Rank(Key(p))
         IN  <<m>> \o SortObjs(S \ {m})

\* txn.Get(table, index): every entry of the index, in key order.
collectTools(root, table, index) ==
    SortObjs({e[2] : e \in root[table][index]})

\* txn.Get(table, index, value): the entries under the value, in key order.
collectToolsFiltered(root, table, index, value) ==
    SortObjs({e[2] : e \in {f \in root[table][index] : f[1] = value}})

collectSkills(root, table, index) == collectTools(root, table, index)

collectSkillsFiltered(root, table, index, value) ==
    collectToolsFiltered(root, table, index, value)

\* An Insert that leaves the entries of the replaced object in the index.
IndexInsertKeep(entries, index, existing, obj) ==
    entries \cup {<<v, obj>> : v \in IndexVals(index, obj)}

\* One index of a table brought up to date for an Insert of obj that replaces
\* existing (nil when the key is new): the entries of the replaced object
\* leave the index, the entries of the new object enter it.
IndexInsert(entries, index, existing, obj) ==
    LET old == IF existing = NilObj THEN {}
               ELSE {<<v, existing>> : v \in IndexVals(index, existing)}
    IN  (entries \ old) \cup {<<v, obj>> : v \in IndexVals(index, obj)}

\* A Delete that takes the object out of the primary index only.
IndexDeleteIdOnly(entries, index, existing) ==
    IF index = "id"
    THEN entries \ {<<v, existing>> : v \in IndexVals(index, existing)}
    ELSE entries

\* One index of a table brought up to date for a Delete of existing.
IndexDelete(entries, index, existing) ==
    entries \ {<<v, existing>> : v \in IndexVals(index, existing)}

\* A write transaction's step on one index of its private working root.
TxnStepIndex(t, index) ==
    [t EXCEPT
        !.root[t.table][index] =
            IF t.kind = "insert"
            THEN IndexInsert(@, index, t.existing, t.obj)
            ELSE IndexDelete(@, index, t.existing),
        !.pending = @ \ {index}]

\* db.Txn(true) followed by the lookup of the object's primary key: the
\* transaction works on a private copy of the committed root.
TxnBegin(root, kind, table, obj) ==
    LET existing == TxnFirst(root, table, Key(obj))
    IN  [open |-> TRUE, kind |-> kind, table |-> table, obj |-> obj,
         existing |-> existing, root |-> root,
         pending |-> IF kind = "delete" /\ existing = NilObj
                     THEN {} ELSE storeSchema(table)]

RECURSIVE TxnRun(_)
\* txn.Insert / txn.Delete run to their end inside one transaction.
TxnRun(t) ==
    IF t.pending = {} THEN t
    ELSE TxnRun(TxnStepIndex(t, CHOOSE ix \in t.pending : TRUE))

\* A whole write committed in one step: what a single-threaded caller sees.
WriteRoot(root, kind, table, obj) == TxnRun(TxnBegin(root, kind, table, obj)).root

-----------------------------------------------------------------------------
(* Store: reads                                                            *)

\* A read transaction that would see the working root of an open write
\* transaction (no isolation between a writer and the readers).
ReaderRootDirty ==
    IF \E w \in Writers : wt[w] # NoTxn
    THEN wt[CHOOSE w \in Writers : wt[w] # NoTxn].root
    ELSE db

\* s.db.Txn(false): a read transaction sees the committed root.
ReaderRoot == db

GetTool(root, name) == TxnFirst(root, "tools", name)
ListTools(root) == collectTools(root, "tools", "id")
ListToolsBySource(root, source) == collectToolsFiltered(root, "tools", "source", source)
ListToolsByTag(root, tag) == collectToolsFiltered(root, "tools", "tags", tag)
GetSkill(root, name) == TxnFirst(root, "skills", name)
ListSkills(root) == collectSkills(root, "skills", "id")
ListSkillsByCategory(root, category) ==
    collectSkillsFiltered(root, "skills", "category", category)
ListSkillsByTag(root, tag) == collectSkillsFiltered(root, "skills", "tags", tag)

\* A snapshot handle that would open a fresh read transaction at every read.
SnapshotRootLive(ss) == db

\* The root a StoreSnapshot reads from: the read transaction it was made with.
SnapshotRoot(ss) == ss.txn

Sources == {"native", "skill:A", "skill:B", "skill:C"}
Tags == {"x", "y"}
Categories == {"c1", "c2"}

\* StoreSnapshot.Tools / ToolsBySource / ToolsByTag / Skills / SkillsByCategory
SnapTools(ss) == collectTools(SnapshotRoot(ss), "tools", "id")
SnapToolsBySource(ss, source) ==
    collectToolsFiltered(SnapshotRoot(ss), "tools", "source", source)
SnapToolsByTag(ss, tag) == collectToolsFiltered(SnapshotRoot(ss), "tools", "tags", tag)
SnapSkills(ss) == collectSkills(SnapshotRoot(ss), "skills", "id")
SnapSkillsByCategory(ss, category) ==
    collectSkillsFiltered(SnapshotRoot(ss), "skills", "category", category)

\* Every read a snapshot handle offers, as one value.
SnapReads(ss) ==
    [Tools            |-> SnapTools(ss),
     ToolsBySource    |-> [s \in Sources |-> SnapToolsBySource(ss, s)],
     ToolsByTag       |-> [t \in Tags |-> SnapToolsByTag(ss, t)],
     Skills           |-> SnapSkills(ss),
     SkillsByCategory |-> [c \in Categories |-> SnapSkillsByCategory(ss, c)]]

-----------------------------------------------------------------------------
(* Store: the records written in the concurrent store specification        *)

StoredTool(name, desc, source, tags) ==
    [Name |-> name, Desc |-> desc, InputSchema |-> "s1", Source |-> source,
     Tags |-> tags, Handler |-> "f1"]

\* A tool with a schema and a handler of its own.
WithHandler(tool, schema, handler) ==
    [tool EXCEPT !.InputSchema = schema, !.Handler = handler]

\* The embedded ToolDefinition of a StoredTool.
DefOf(t) == [Name |-> t.Name, Desc |-> t.Desc, InputSchema |-> t.InputSchema]

\* &StoredTool{ToolDefinition: def, Source: source, Tags: tags, Handler: handler}
StoredToolOf(def, source, tags, handler) ==
    [Name |-> def.Name, Desc |-> def.Desc, InputSchema |-> def.InputSchema,
     Source |-> source, Tags |-> tags, Handler |-> handler]

StoredHook(id, pattern) == [ID |-> id, Pattern |-> pattern]

StoredSkill(name, tags, category, tools, deps) ==
    [Name |-> name, Tags |-> tags, Category |-> category,
     Tools |-> tools, Dependencies |-> deps]

StoreTools ==
    {StoredTool(n, "d1", "native", <<>>) : n \in ToolNames}
    \cup {StoredTool(n, "d1", "native", <<"x", "y">>) : n \in ToolNames}
    \cup {WithHandler(StoredTool(n, "d2", "skill:A", <<"x">>), "s2", "f2") :
             n \in ToolNames}

\* Tools that txn.Insert rejects: no Source, no Name.
BadTools ==
    {StoredTool("t1", "d1", "", <<"x">>), StoredTool("", "d1", "native", <<>>)}

StoreSkills ==
    {StoredSkill("A", <<>>, "", <<>>, <<>>),
     StoredSkill("A", <<"x">>, "c1", <<>>, <<>>)}

-----------------------------------------------------------------------------
(* Store: writes as seen by one caller (the whole handler, committed)      *)

\* The error InsertTool / InsertSkill / InsertHook return ("" for nil).
InsertToolErr(tool) ==
    IF MissingIndex("tools", tool) THEN "insert tool: missing value for index"
                                   ELSE ""
InsertSkillErr(skill) ==
    IF MissingIndex("skills", skill) THEN "insert skill: missing value for index"
                                     ELSE ""

\* A DeleteTool that reports a key that is absent.
DeleteToolErrNotFound(root, name) ==
    IF TxnFirst(root, "tools", name) = NilObj THEN "tool not found" ELSE ""

\* The error DeleteTool / DeleteSkill / DeleteHook return: a key that is
\* absent is not an error.
DeleteToolErr(root, name) == ""
DeleteSkillErr(root, name) == ""
DeleteHookErr(root, id) == ""

\* A failed txn.Insert returns before Commit: the deferred Abort drops the
\* working root.
InsertToolRoot(root, tool) ==
    IF InsertToolErr(tool) # "" THEN root
    ELSE WriteRoot(root, "insert", "tools", tool)
DeleteToolRoot(root, name) == WriteRoot(root, "delete", "tools", [Name |-> name])
InsertSkillRoot(root, skill) ==
    IF InsertSkillErr(skill) # "" THEN root
    ELSE WriteRoot(root, "insert", "skills", skill)
DeleteSkillRoot(root, name) == WriteRoot(root, "delete", "skills", [Name |-> name])

InsertTool(tool) ==
    /\ db' = InsertToolRoot(db, tool)
    /\ UNCHANGED <<wt, snap, snapSeen, lastRead>>
    /\ UNCHANGED nonStore

DeleteTool(name) ==
    /\ db' = DeleteToolRoot(db, name)
    /\ UNCHANGED <<wt, snap, snapSeen, lastRead>>
    /\ UNCHANGED nonStore

InsertSkill(skill) ==
    /\ db' = InsertSkillRoot(db, skill)
    /\ UNCHANGED <<wt, snap, snapSeen, lastRead>>
    /\ UNCHANGED nonStore

DeleteSkill(name) ==
    /\ db' = DeleteSkillRoot(db, name)
    /\ UNCHANGED <<wt, snap, snapSeen, lastRead>>
    /\ UNCHANGED nonStore

\* Store.Snapshot(): a read transaction kept by the caller.
Snapshot ==
    /\ snap' = [held |-> TRUE, txn |-> ReaderRoot]
    /\ snapSeen' = SnapReads([held |-> TRUE, txn |-> ReaderRoot])
    /\ lastRead' = NoRead
    /\ UNCHANGED <<db, wt>>
    /\ UNCHANGED nonStore

\* A read through the snapshot handle.
SnapshotRead ==
    /\ snap # NoSnap
    /\ \/ lastRead' = [op |-> "Tools", arg |-> "", out |-> SnapTools(snap)]
       \/ \E s \in Sources :
            lastRead' = [op |-> "ToolsBySource", arg |-> s,
                         out |-> SnapToolsBySource(snap, s)]
       \/ \E t \in Tags :
            lastRead' = [op |-> "ToolsByTag", arg |-> t,
                         out |-> SnapToolsByTag(snap, t)]
       \/ lastRead' = [op |-> "Skills", arg |-> "", out |-> SnapSkills(snap)]
       \/ \E c \in Categories :
            lastRead' = [op |-> "SkillsByCategory", arg |-> c,
                         out |-> SnapSkillsByCategory(snap, c)]
    /\ UNCHANGED <<db, wt, snap, snapSeen>>
    /\ UNCHANGED nonStore

Init ==
    /\ db = NewStore
    /\ wt = [w \in Writers |-> NoTxn]
    /\ snap = NoSnap
    /\ snapSeen = NoRead
    /\ lastRead = NoRead
    /\ res = NoRes
    /\ idx = NewBM25Index
    /\ hits = NoHits
    /\ sel = NoSel
    /\ hookIDCounter = 0
    /\ ixCall = NoCall
    /\ hkCall = NoCall
    /\ run = NoRun
    /\ proc = [g \in Goroutines |-> Idle]

NextStore ==
    \/ \E tool \in StoreTools \cup BadTools : InsertTool(tool)
    \/ \E name \in ToolNames : DeleteTool(name)
    \/ \E skill \in StoreSkills : InsertSkill(skill)
    \/ DeleteSkill("A")
    \/ Snapshot
    \/ SnapshotRead

SpecStore == Init /\ [][NextStore]_vars

\* The Store under one caller that writes and takes snapshots.
NextCrud ==
    \/ \E tool \in StoreTools \cup BadTools : InsertTool(tool)
    \/ \E name \in ToolNames : DeleteTool(name)
    \/ \E skill \in StoreSkills : InsertSkill(skill)
    \/ DeleteSkill("A")
    \/ Snapshot

SpecCrud == Init /\ [][NextCrud]_vars

-----------------------------------------------------------------------------
(* Store: hooks                                                            *)

MaxHookIDs == 2

\* fmt.Sprintf("hook-%d", n)
HookIDs == <<"hook-1", "hook-2", "hook-3", "hook-4">>

\* nextHookID(): the counter is incremented and formatted.
nextHookID(counter) == HookIDs[counter + 1]

\* The hook as InsertHook stores it: an empty ID is filled in.
InsertHookArg(hook, counter) ==
    IF hook.ID = "" THEN [hook EXCEPT !.ID = nextHookID(counter)] ELSE hook

InsertHookErr(hook, counter) ==
    IF MissingIndex("hooks", InsertHookArg(hook, counter))
    THEN "insert hook: missing value for index" ELSE ""

InsertHookRoot(root, hook, counter) ==
    IF InsertHookErr(hook, counter) # "" THEN root
    ELSE WriteRoot(root, "insert", "hooks", InsertHookArg(hook, counter))

DeleteHookRoot(root, id) == WriteRoot(root, "delete", "hooks", [ID |-> id])

GetHook(root, id) == TxnFirst(root, "hooks", id)
ListHooks(root) == collectTools(root, "hooks", "id")
ListHooksByPattern(root, pattern) ==
    collectToolsFiltered(root, "hooks", "pattern", pattern)

\* Store.InsertHook(hook). hook is a pointer: the call is recorded with the
\* caller's struct as it was before and as it is after the call.
InsertHook(hook) ==
    /\ hook.ID = "" => hookIDCounter < MaxHookIDs
    /\ db' = InsertHookRoot(db, hook, hookIDCounter)
    /\ hookIDCounter' = IF hook.ID = "" THEN hookIDCounter + 1 ELSE hookIDCounter
    /\ hkCall' = [done |-> TRUE, op |-> "InsertHook", hook |-> hook,
                  after |-> InsertHookArg(hook, hookIDCounter),
                  err |-> InsertHookErr(hook, hookIDCounter)]
    /\ UNCHANGED <<storeAux, res, idx, hits, sel, ixCall, run, proc>>

DeleteHook(id) ==
    /\ db' = DeleteHookRoot(db, id)
    /\ UNCHANGED storeAux
    /\ UNCHANGED nonStore

\* The hooks the model inserts: with and without an ID of their own, and
\* one that txn.Insert rejects for its empty Pattern.
StoreHooks ==
    {StoredHook(id, pattern) : id \in {"", "h1"}, pattern \in {"p1", "p2"}}
    \cup {StoredHook("h1", "")}

HookKeys == {"h1"} \cup {HookIDs[i] : i \in 1..MaxHookIDs}

NextHook ==
    \/ \E tool \in StoreTools \cup BadTools : InsertTool(tool)
    \/ \E name \in ToolNames : DeleteTool(name)
    \/ \E skill \in StoreSkills : InsertSkill(skill)
    \/ DeleteSkill("A")
    \/ \E hook \in StoreHooks : InsertHook(hook)
    \/ \E id \in HookKeys : DeleteHook(id)

SpecHook == Init /\ [][NextHook]_vars

-----------------------------------------------------------------------------
(* Hooks: pre-tool-use hooks (hooks.go) and Agent.executeTools (agent.go)  *)

MaxPreHooks == 3

\* A PreToolUseHook of the model: n tells the registered functions apart (it
\* is the n-th registered), kind is the decision it returns, and late tells
\* that it answers after any timeout has passed.
PreToolUseHook(n, kind, late) == [n |-> n, kind |-> kind, late |-> late]

\* The reason a hook gives when it denies.
Reasons == <<"r1", "r2", "r3", "r4">>

AllowHook == [Decision |-> "allow", Reason |-> "", ModifiedInput |-> <<>>]
DenyHook(reason) == [Decision |-> "deny", Reason |-> reason, ModifiedInput |-> <<>>]
ModifyHook(newInput) ==
    [Decision |-> "modify", Reason |-> "", ModifiedInput |-> newInput]

\* hook(ctx, hookCtx): a modifying hook appends its number to the input.
HookAnswer(hook, input) ==
    CASE hook.kind = "allow"  -> AllowHook
      [] hook.kind = "deny"   -> DenyHook(Reasons[hook.n])
      [] hook.kind = "modify" -> ModifyHook(Append(input, hook.n))

\* A StoredHook with the fields the Hooks layer fills.
StoredPreHooks(id, pattern, isRegex, timeout, preHooks) ==
    [ID |-> id, Pattern |-> pattern, IsRegex |-> isRegex, Timeout |-> timeout,
     PreHooks |-> preHooks]

\* re.MatchString(toolName) for the patterns and tool names of the model.
MatchString(pattern, toolName) == pattern = "t." \/ pattern = toolName

\* Hooks.matchesToolName(sh, toolName)
matchesToolName(sh, toolName) ==
    IF sh.Pattern = "*" THEN TRUE
    ELSE IF sh.IsRegex THEN MatchString(sh.Pattern, toolName)
    ELSE sh.Pattern = toolName

\* Hooks.addPreHookInternal(matcher, isRegex, timeout, hook): the hook is
\* appended to the first stored hook with this pattern and isRegex, or a
\* new stored hook is inserted. Returns the root and the ID counter.
addPreHookInternal(root, counter, matcher, isRegex, timeout, hook) ==
    LET hooks == ListHooksByPattern(root, matcher)
        same == {i \in DOMAIN hooks : hooks[i].IsRegex = isRegex}
    IN  IF same # {}
        THEN LET sh == hooks[CHOOSE i \in same : \A j \in same : i <= j]
                 updated ==
                    [sh EXCEPT !.PreHooks = Append(@, hook),
                               !.Timeout = IF timeout > 0 THEN timeout ELSE @]
             IN  [root |-> InsertHookRoot(root, updated, counter),
                  counter |-> counter]
        ELSE [root |-> InsertHookRoot(
                           root,
                           StoredPreHooks("", matcher, isRegex, timeout, <<hook>>),
                           counter),
              counter |-> counter + 1]

RECURSIVE RunHookList(_, _, _)
\* for _, hook := range sh.PreHooks. st holds result, currentInput, the
\* hooks invoked so far with the input and the timeout they ran under, and
\* whether RunPreHooks has returned.
RunHookList(sh, i, st) ==
    IF i > Len(sh.PreHooks) \/ st.returned THEN st
    ELSE
    LET hook == sh.PreHooks[i]
        called == Append(st.calls, [hook |-> hook, Input |-> st.currentInput,
                                    Timeout |-> sh.Timeout])
        hookResult == HookAnswer(hook, st.currentInput)
    IN  IF sh.Timeout > 0 /\ hook.late
        THEN [st EXCEPT !.calls = called, !.returned = TRUE,
                        !.result = DenyHook("hook timed out")]
        ELSE RunHookList(
                sh, i + 1,
                CASE hookResult.Decision = "deny" ->
                        [st EXCEPT !.calls = called, !.returned = TRUE,
                                   !.result = hookResult]
                  [] hookResult.Decision = "modify" ->
                        [st EXCEPT !.calls = called, !.result = hookResult,
                                   !.currentInput = hookResult.ModifiedInput]
                  [] OTHER -> [st EXCEPT !.calls = called])

RECURSIVE RunStoredHooks(_, _, _, _)
\* for _, sh := range storedHooks
RunStoredHooks(storedHooks, i, toolName, st) ==
    IF i > Len(storedHooks) \/ st.returned THEN st
    ELSE RunStoredHooks(
            storedHooks, i + 1, toolName,
            IF matchesToolName(storedHooks[i], toolName)
            THEN RunHookList(storedHooks[i], 1, st) ELSE st)

\* Hooks.RunPreHooks(ctx, hookCtx): the result, and the hooks it invoked.
RunPreHooks(root, toolName, input) ==
    LET st == RunStoredHooks(ListHooks(root), 1, toolName,
                             [result |-> AllowHook, currentInput |-> input,
                              calls |-> <<>>, returned |-> FALSE])
    IN  [result |-> IF ~st.returned /\ st.result.Decision = "modify"
                    THEN [st.result EXCEPT !.ModifiedInput = st.currentInput]
                    ELSE st.result,
         calls |-> st.calls]

\* The tools of the Agent's registry.
AgentTools == {"t1"}

\* An executeTools that reports a Deny and runs the tool all the same.
executeToolsAfterDeny(root, toolName, input) ==
    LET pre == RunPreHooks(root, toolName, input)
    IN  [pre |-> pre, IsError |-> pre.result.Decision = "deny",
         Content |-> <<"Tool execution denied: ", pre.result.Reason>>,
         executed |-> toolName \in AgentTools, handlerInput |-> input]

\* An executeTools that drops the input the hooks modified.
executeToolsOriginalInput(root, toolName, input) ==
    LET pre == RunPreHooks(root, toolName, input)
    IN  [pre |-> pre, IsError |-> pre.result.Decision = "deny",
         Content |-> <<"Tool execution denied: ", pre.result.Reason>>,
         executed |-> pre.result.Decision # "deny" /\ toolName \in AgentTools,
         handlerInput |-> input]

\* Agent.executeTools for one tool call, with hooks and without CanUseTool:
\* the response, and the input the tool's handler was invoked with (or that
\* it was not invoked).
executeTools(root, toolName, input) ==
    LET pre == RunPreHooks(root, toolName, input)
        currentInput == IF pre.result.Decision = "modify"
                        THEN pre.result.ModifiedInput ELSE input
    IN  IF pre.result.Decision = "deny"
        THEN [pre |-> pre, IsError |-> TRUE,
              Content |-> <<"Tool execution denied: ", pre.result.Reason>>,
              executed |-> FALSE, handlerInput |-> <<>>]
        ELSE IF toolName \notin AgentTools
        THEN [pre |-> pre, IsError |-> TRUE,
              Content |-> <<"Tool not found: ", toolName>>,
              executed |-> FALSE, handlerInput |-> <<>>]
        ELSE [pre |-> pre, IsError |-> FALSE, Content |-> <<"ok", toolName>>,
              executed |-> TRUE, handlerInput |-> currentInput]

\* The registered pre-hooks whose matcher accepts the tool name.
MatchingHooks(root, toolName) ==
    UNION {SeqRange(sh.PreHooks) :
             sh \in {r \in SeqRange(ListHooks(root)) : matchesToolName(r, toolName)}}

\* The pre-hooks registered so far.
Registered(root) ==
    UNION {SeqRange(sh.PreHooks) : sh \in SeqRange(ListHooks(root))}

\* Hooks.AddPreHookWithOptions(matcher, isRegex, timeout, hook);
\* AddPreHook(matcher, hook) is the call with isRegex false and timeout 0.
AddPreHookWithOptions(matcher, isRegex, timeout, kind, late) ==
    LET n == Cardinality(Registered(db)) + 1
        added == addPreHookInternal(db, hookIDCounter, matcher, isRegex, timeout,
                                    PreToolUseHook(n, kind, late))
    IN  /\ hkCall = NoCall
        /\ n <= MaxPreHooks
        /\ hookIDCounter < Len(HookIDs)
        /\ db' = added.root
        /\ hookIDCounter' = added.counter
        /\ UNCHANGED <<storeAux, res, idx, hits, sel, ixCall, hkCall, run, proc>>

\* The input of the tool calls of the model.
ToolInput == <<0>>

\* The Agent executes a tool call: the call runs to its return.
ExecuteTools(toolName) ==
    /\ hkCall = NoCall
    /\ hkCall' = [done |-> TRUE, op |-> "executeTools", ToolName |-> toolName,
                  Input |-> ToolInput,
                  response |-> executeTools(db, toolName, ToolInput)]
    /\ UNCHANGED <<db, storeAux, res, idx, hits, sel, hookIDCounter, ixCall, run,
                       proc>>

ExecuteReturn ==
    /\ hkCall # NoCall
    /\ hkCall' = NoCall
    /\ UNCHANGED <<db, storeAux, res, idx, hits, sel, hookIDCounter, ixCall, run,
                       proc>>

\* The matchers hooks are registered with, and what the hooks do.
Matchers ==
    {[Pattern |-> "*", IsRegex |-> FALSE, Timeout |-> 0],
     [Pattern |-> "t1", IsRegex |-> FALSE, Timeout |-> 0],
     [Pattern |-> "t1", IsRegex |-> FALSE, Timeout |-> 1],
     [Pattern |-> "t.", IsRegex |-> TRUE, Timeout |-> 0]}
HookKinds ==
    {[kind |-> "allow", late |-> FALSE], [kind |-> "deny", late |-> FALSE],
     [kind |-> "modify", late |-> FALSE], [kind |-> "allow", late |-> TRUE]}

NextHooks ==
    \/ \E m \in Matchers, k \in HookKinds :
          AddPreHookWithOptions(m.Pattern, m.IsRegex, m.Timeout, k.kind, k.late)
    \/ \E toolName \in {"t1", "t2"} : ExecuteTools(toolName)
    \/ ExecuteReturn

SpecHooks == Init /\ [][NextHooks]_vars

-----------------------------------------------------------------------------
(* Agent.executeTools with CanUseTool, pre-hooks and post-hooks (agent.go) *)

MaxPostHooks == 1
MaxToolCalls == 2

\* sh.PostHooks; a stored hook made by addPreHookInternal has none (nil).
PostHooksOf(sh) == IF "PostHooks" \in DOMAIN sh THEN sh.PostHooks ELSE <<>>

\* The post-hooks registered so far.
RegisteredPost(root) ==
    UNION {SeqRange(PostHooksOf(sh)) : sh \in SeqRange(ListHooks(root))}

\* Hooks.addPostHookInternal(matcher, isRegex, timeout, hook)
addPostHookInternal(root, counter, matcher, isRegex, timeout, hook) ==
    LET hooks == ListHooksByPattern(root, matcher)
        same == {i \in DOMAIN hooks : hooks[i].IsRegex = isRegex}
    IN  IF same # {}
        THEN LET sh == hooks[CHOOSE i \in same : \A j \in same : i <= j]
                 updated ==
                    [ID |-> sh.ID, Pattern |-> sh.Pattern, IsRegex |-> sh.IsRegex,
                     Timeout |-> IF timeout > 0 THEN timeout ELSE sh.Timeout,
                     PreHooks |-> sh.PreHooks,
                     PostHooks |-> Append(PostHooksOf(sh), hook)]
             IN  [root |-> InsertHookRoot(root, updated, counter),
                  counter |-> counter]
        ELSE [root |-> InsertHookRoot(
                           root,
                           [ID |-> "", Pattern |-> matcher, IsRegex |-> isRegex,
                            Timeout |-> timeout, PreHooks |-> <<>>,
                            PostHooks |-> <<hook>>],
                           counter),
              counter |-> counter + 1]

\* Hooks.AddPostHook(matcher, hook): the n-th post-hook registered.
AddPostHook(matcher) ==
    LET n == Cardinality(RegisteredPost(db)) + 1
        added == addPostHookInternal(db, hookIDCounter, matcher, FALSE, 0,
                                     [n |-> n])
    IN  /\ hkCall = NoCall
        /\ n <= MaxPostHooks
        /\ hookIDCounter < Len(HookIDs)
        /\ db' = added.root
        /\ hookIDCounter' = added.counter
        /\ UNCHANGED <<storeAux, res, idx, hits, sel, ixCall, hkCall, run, proc>>

\* Hooks.RunPostHooks(ctx, hookCtx, toolResult, isError): the post-hooks it
\* invokes, in order (a timeout abandons a hook, it does not skip it).
RunPostHooks(root, toolName) ==
    LET storedHooks == ListHooks(root)
        F[i \in 0..Len(storedHooks)] ==
            IF i = 0 THEN <<>>
            ELSE IF matchesToolName(storedHooks[i], toolName)
                 THEN F[i - 1] \o PostHooksOf(storedHooks[i])
                 ELSE F[i - 1]
    IN  F[Len(storedHooks)]

\* The CanUseTool callbacks of the model: nil, or a function that denies
\* the tools in denies with Reason and allows the others, handing on a
\* modified input when modifies.
NoCanUseTool == [set |-> FALSE]
CanUseToolFunc(denies, reason, modifies) ==
    [set |-> TRUE, denies |-> denies, Reason |-> reason, modifies |-> modifies]

\* decision := a.canUseTool(ctx, tc.Name, tc.ID, tc.Input)
PermissionDecision(canUseTool, tc) ==
    IF tc.Name \in canUseTool.denies
    THEN [Allow |-> FALSE, Reason |-> canUseTool.Reason, ModifiedInput |-> <<>>]
    ELSE [Allow |-> TRUE, Reason |-> "",
          ModifiedInput |-> IF canUseTool.modifies THEN Append(tc.Input, 9)
                            ELSE <<>>]

\* What happened during executeTools, in order: a call of canUseTool, of a
\* pre-hook, of the tool's handler or of a post-hook, for a tool call.
Step(ev, id, n) == [ev |-> ev, ID |-> id, n |-> n]

\* The steps of RunPreHooks for a tool call.
PreSteps(pre, id) == [i \in DOMAIN pre.calls |-> Step("pre", id, pre.calls[i].hook.n)]

\* The steps of RunPostHooks for a tool call.
PostSteps(root, tc) ==
    LET post == RunPostHooks(root, tc.Name)
    IN  [i \in DOMAIN post |-> Step("post", tc.ID, post[i].n)]

\* An executeTools iteration that runs the hooks and the tool before it
\* asks canUseTool.
executeToolCallHooksFirst(root, canUseTool, tc) ==
    LET r == executeTools(root, tc.Name, tc.Input)
        decision == PermissionDecision(canUseTool, tc)
    IN  [response |->
            [ToolUseID |-> tc.ID,
             Content |-> IF canUseTool.set /\ ~decision.Allow
                         THEN <<"Tool execution denied: ", decision.Reason>>
                         ELSE r.Content,
             IsError |-> r.IsError \/ (canUseTool.set /\ ~decision.Allow)],
         steps |-> PreSteps(r.pre, tc.ID)
                   \o (IF r.executed THEN <<Step("handler", tc.ID, 0)>> ELSE <<>>)
                   \o (IF canUseTool.set THEN <<Step("canUseTool", tc.ID, 0)>>
                       ELSE <<>>)]

\* Agent.executeTools, one iteration of `for _, tc := range toolCalls`: the
\* response and the steps taken.
executeToolCall(root, canUseTool, tc) ==
    LET decision == PermissionDecision(canUseTool, tc)
        asked == IF canUseTool.set THEN <<Step("canUseTool", tc.ID, 0)>> ELSE <<>>
    IN  IF canUseTool.set /\ ~decision.Allow
        THEN [response |->
                [ToolUseID |-> tc.ID,
                 Content |-> <<"Tool execution denied: ",
                               IF decision.Reason = "" THEN "permission denied"
                               ELSE decision.Reason>>,
                 IsError |-> TRUE],
              steps |-> asked]
        ELSE
        LET currentInput ==
                IF canUseTool.set /\ decision.ModifiedInput # <<>>
                THEN decision.ModifiedInput ELSE tc.Input
            r == executeTools(root, tc.Name, currentInput)
        IN  [response |-> [ToolUseID |-> tc.ID, Content |-> r.Content,
                           IsError |-> r.IsError],
             steps |->
                asked \o PreSteps(r.pre, tc.ID)
                \o (IF r.executed THEN <<Step("handler", tc.ID, 0)>> ELSE <<>>)
                \o (IF r.pre.result.Decision = "deny" THEN <<>>
                    ELSE PostSteps(root, tc))]

\* Agent.executeTools(ctx, toolCalls, events): the responses and the steps.
executeToolCalls(root, canUseTool, toolCalls) ==
    LET F[i \in 0..Len(toolCalls)] ==
            IF i = 0 THEN [results |-> <<>>, steps |-> <<>>]
            ELSE LET one == executeToolCall(root, canUseTool, toolCalls[i])
                 IN  [results |-> Append(F[i - 1].results, one.response),
                      steps |-> F[i - 1].steps \o one.steps]
    IN  F[Len(toolCalls)]

\* The tool calls of a turn: the i-th call has ID i.
CallIDs == <<"c1", "c2", "c3">>
ToolCallLists ==
    UNION {{[i \in 1..n |-> [ID |-> CallIDs[i], Name |-> names[i],
                             Input |-> ToolInput]] :
              names \in [1..n -> {"t1", "t2"}]} : n \in 1..MaxToolCalls}

\* The Agent executes the tool calls of a turn: the call runs to its return.
ExecuteToolCalls(canUseTool, toolCalls) ==
    LET out == executeToolCalls(db, canUseTool, toolCalls)
    IN  /\ hkCall = NoCall
        /\ hkCall' = [done |-> TRUE, op |-> "executeToolCalls",
                      canUseTool |-> canUseTool, toolCalls |-> toolCalls,
                      results |-> out.results, steps |-> out.steps]
        /\ UNCHANGED <<db, storeAux, res, idx, hits, sel, hookIDCounter, ixCall,
                       run, proc>>

CanUseTools ==
    {NoCanUseTool, CanUseToolFunc({}, "", FALSE), CanUseToolFunc({}, "", TRUE),
     CanUseToolFunc({"t1"}, "no", FALSE), CanUseToolFunc({"t1"}, "", FALSE)}

NextPerm ==
    \/ \E matcher \in {"*", "t1"}, kind \in {"allow", "deny"} :
          AddPreHookWithOptions(matcher, FALSE, 0, kind, FALSE)
    \/ AddPostHook("t1")
    \/ \E canUseTool \in CanUseTools, toolCalls \in ToolCallLists :
          ExecuteToolCalls(canUseTool, toolCalls)
    \/ ExecuteReturn

SpecPerm == Init /\ [][NextPerm]_vars

\* The steps taken for the tool call with this ID, in order.
StepsOf(id) == SelectSeq(hkCall.steps, LAMBDA st : st.ID = id)

\* C31: canUseTool, when set, is asked for every tool call before any
\* pre-hook; when it denies, nothing else runs for that call and the
\* response is the error "Tool execution denied: <reason>" ("permission
\* denied" without a reason); there is one response per tool call, in call
\* order, carrying the call's ID.
C31_PermissionFirst ==
    hkCall.done /\ hkCall.op = "executeToolCalls" =>
        /\ Len(hkCall.results) = Len(hkCall.toolCalls)
        /\ \A i \in DOMAIN hkCall.toolCalls :
              LET tc == hkCall.toolCalls[i]
                  steps == StepsOf(tc.ID)
              IN  /\ hkCall.results[i].ToolUseID = tc.ID
                  /\ hkCall.canUseTool.set =>
                        /\ Len(steps) >= 1
                        /\ steps[1].ev = "canUseTool"
                        /\ \A k \in 2..Len(steps) : steps[k].ev # "canUseTool"
                  /\ ~hkCall.canUseTool.set =>
                        \A k \in DOMAIN steps : steps[k].ev # "canUseTool"
                  /\ (hkCall.canUseTool.set /\ tc.Name \in hkCall.canUseTool.denies) =>
                        /\ Len(steps) = 1
                        /\ hkCall.results[i].IsError
                        /\ hkCall.results[i].Content =
                              <<"Tool execution denied: ",
                                IF hkCall.canUseTool.Reason = ""
                                THEN "permission denied"
                                ELSE hkCall.canUseTool.Reason>>
        /\ \A k, l \in DOMAIN hkCall.steps :
              k < l =>
                 \E i, j \in DOMAIN hkCall.toolCalls :
                    /\ i <= j
                    /\ hkCall.steps[k].ID = hkCall.toolCalls[i].ID
                    /\ hkCall.steps[l].ID = hkCall.toolCalls[j].ID

\* Witness for C31: canUseTool denies, without a reason, a call of a
\* registered tool that a pre-hook and a post-hook match, and allows the
\* next call, for which the pre-hook runs.
C31_Witness ==
    /\ hkCall.done /\ hkCall.op = "executeToolCalls"
    /\ hkCall.canUseTool.set /\ hkCall.canUseTool.Reason = ""
    /\ Len(hkCall.toolCalls) = 2
    /\ hkCall.toolCalls[1].Name \in hkCall.canUseTool.denies
    /\ hkCall.toolCalls[1].Name \in AgentTools
    /\ MatchingHooks(db, hkCall.toolCalls[1].Name) # {}
    /\ RunPostHooks(db, hkCall.toolCalls[1].Name) # <<>>
    /\ hkCall.toolCalls[2].Name \notin hkCall.canUseTool.denies
    /\ \E k \in DOMAIN hkCall.steps :
          hkCall.steps[k].ev = "pre" /\ hkCall.steps[k].ID = hkCall.toolCalls[2].ID

-----------------------------------------------------------------------------
(* Hooks: AddPreHook / AddPostHook as their two Store calls                *)

\* addPreHookInternal / addPostHookInternal up to and with
\* h.store.ListHooksByPattern(matcher): the stored hook the loop stops at,
\* or NilObj.
AddHookList(g, kind, matcher, n) ==
    LET hooks == ListHooksByPattern(db, matcher)
        same == {i \in DOMAIN hooks : hooks[i].IsRegex = FALSE}
    IN  /\ proc[g] = Idle
        /\ proc' = [proc EXCEPT ![g] =
                      [op |-> "AddHook", kind |-> kind, matcher |-> matcher,
                       n |-> n,
                       sh |-> IF same = {} THEN NilObj
                              ELSE hooks[CHOOSE i \in same :
                                            \A j \in same : i <= j]]]
        /\ UNCHANGED <<db, storeAux, res, idx, hits, sel, hookIDCounter, ixCall,
                       hkCall, run>>

\* The stored hook the call inserts: the one it listed with its hook
\* appended, or a new one.
AddHookRecord(call) ==
    LET pre == IF call.kind = "pre"
               THEN <<PreToolUseHook(call.n, "allow", FALSE)>> ELSE <<>>
        post == IF call.kind = "post" THEN <<[n |-> call.n]>> ELSE <<>>
    IN  IF call.sh = NilObj
        THEN [ID |-> "", Pattern |-> call.matcher, IsRegex |-> FALSE,
              Timeout |-> 0, PreHooks |-> pre, PostHooks |-> post]
        ELSE [ID |-> call.sh.ID, Pattern |-> call.sh.Pattern,
              IsRegex |-> call.sh.IsRegex, Timeout |-> call.sh.Timeout,
              PreHooks |-> call.sh.PreHooks \o pre,
              PostHooks |-> PostHooksOf(call.sh) \o post]

\* h.store.InsertHook(updated) or h.store.InsertHook(sh), and the return.
AddHookInsert(g) ==
    /\ proc[g].op = "AddHook"
    /\ hookIDCounter < Len(HookIDs)
    /\ db' = InsertHookRoot(db, AddHookRecord(proc[g]), hookIDCounter)
    /\ hookIDCounter' = IF proc[g].sh = NilObj THEN hookIDCounter + 1
                        ELSE hookIDCounter
    /\ proc' = [proc EXCEPT ![g] =
                  [op |-> "done", call |-> "AddHook", kind |-> proc[g].kind,
                   matcher |-> proc[g].matcher, n |-> proc[g].n, err |-> ""]]
    /\ UNCHANGED <<storeAux, res, idx, hits, sel, ixCall, hkCall, run>>

\* Two goroutines on one Hooks object: the first adds a pre-hook, the
\* second a pre-hook or a post-hook; a post-hook may have been added on the
\* pattern "t1" before.
NextHookRace ==
    \/ (\A g \in Goroutines : proc[g] = Idle) /\ AddPostHook("t1")
    \/ \E matcher \in {"t1", "*"} : AddHookList("g1", "pre", matcher, 1)
    \/ \E matcher \in {"t1", "*"}, kind \in {"pre", "post"} :
          AddHookList("g2", kind, matcher, 2)
    \/ \E g \in Goroutines : AddHookInsert(g)

SpecHookRace == Init /\ [][NextHookRace]_vars

\* C40: once two concurrent AddPreHook / AddPostHook calls on the same
\* pattern have returned, both hooks are stored and are invoked for a
\* matching tool, and the Store has at most one stored hook for a pattern
\* and isRegex.
C40_NoLostHook ==
    (/\ \A g \in Goroutines : proc[g].op = "done" /\ proc[g].call = "AddHook"
     /\ proc["g1"].matcher = proc["g2"].matcher) =>
        /\ \A g \in Goroutines :
              IF proc[g].kind = "pre"
              THEN \E i \in DOMAIN RunPreHooks(db, "t1", ToolInput).calls :
                      RunPreHooks(db, "t1", ToolInput).calls[i].hook.n = proc[g].n
              ELSE \E i \in DOMAIN RunPostHooks(db, "t1") :
                      RunPostHooks(db, "t1")[i].n = proc[g].n
        /\ \A r1, r2 \in SeqRange(ListHooks(db)) :
              (r1.Pattern = r2.Pattern /\ r1.IsRegex = r2.IsRegex) => r1.ID = r2.ID

-----------------------------------------------------------------------------
(* Agent: NewAgent and the run loop (agent.go)                              *)

\* The largest AgentConfig.MaxTurns an Agent is created with.
MaxTurnsConfigured == 2

\* cfg.MaxTurns = 10 // sensible default
DefaultMaxTurns == 10

\* NewAgent(cfg): the Agent's maxTurns for cfg.MaxTurns.
NewAgentMaxTurns(cfgMaxTurns) ==
    IF cfgMaxTurns = 0 THEN DefaultMaxTurns ELSE cfgMaxTurns

\* NewAgent(cfg), on a configuration without hooks.
NewAgent(cfgMaxTurns) ==
    /\ run.state \in {"none", "ended"}
    /\ run' = [state |-> "created", MaxTurns |-> cfgMaxTurns,
               maxTurns |-> NewAgentMaxTurns(cfgMaxTurns), turn |-> 0,
               history |-> <<>>, event |-> "", N |-> 0]
    /\ UNCHANGED <<db, storeAux, res, idx, hits, sel, hookIDCounter, ixCall, hkCall,
                       proc>>

\* Agent.Run(ctx, prompt): the run loop starts with the prompt as history.
Run ==
    /\ run.state = "created"
    /\ run' = [run EXCEPT !.state = "running", !.history = <<"user">>]
    /\ UNCHANGED <<db, storeAux, res, idx, hits, sel, hookIDCounter, ixCall, hkCall,
                       proc>>

\* One iteration of the loop in which the model asks for a tool: the tool
\* is executed, the call and its result join the history, and turn++.
TurnToolCalls(toolName) ==
    /\ run.state = "running"
    /\ run.turn < run.maxTurns
    /\ run' = [run EXCEPT
                 !.turn = @ + 1,
                 !.history =
                    @ \o <<toolName,
                           executeTools(db, toolName, ToolInput).Content[1]>>]
    /\ UNCHANGED <<db, storeAux, res, idx, hits, sel, hookIDCounter, ixCall, hkCall,
                       proc>>

\* The loop ends inside an iteration: ctx is done, streamTurn fails, or the
\* model asks for no tool (AgentEventComplete).
TurnEnds(event) ==
    /\ run.state = "running"
    /\ run.turn < run.maxTurns
    /\ run' = [run EXCEPT !.state = "ended", !.event = event]
    /\ UNCHANGED <<db, storeAux, res, idx, hits, sel, hookIDCounter, ixCall, hkCall,
                       proc>>

\* The loop condition fails: the error "max turns (N) reached".
MaxTurnsReached ==
    /\ run.state = "running"
    /\ ~(run.turn < run.maxTurns)
    /\ run' = [run EXCEPT !.state = "ended", !.event = "max turns reached",
                          !.N = run.maxTurns]
    /\ UNCHANGED <<db, storeAux, res, idx, hits, sel, hookIDCounter, ixCall, hkCall,
                       proc>>

NextAgent ==
    \/ \E n \in -1..MaxTurnsConfigured : NewAgent(n)
    \/ Run
    \/ \E toolName \in {"t1", "t2"} : TurnToolCalls(toolName)
    \/ \E event \in {"cancelled", "error", "complete"} : TurnEnds(event)
    \/ MaxTurnsReached

SpecAgent == Init /\ [][NextAgent]_vars

\* C30: an Agent created with MaxTurns = 0 never ends its run loop with the
\* "max turns (N) reached" error; one created with MaxTurns = n > 0 performs
\* at most n turns, and the error after them names n.
C30_ZeroIsUnlimited ==
    /\ run.state \in {"running", "ended"} /\ run.MaxTurns = 0 =>
          run.event # "max turns reached"
    /\ run.state \in {"running", "ended"} /\ run.MaxTurns > 0 =>
          /\ run.turn <= run.MaxTurns
          /\ run.event = "max turns reached" =>
                run.turn = run.MaxTurns /\ run.N = run.MaxTurns

\* The call of executeTools that has just returned, and its RunPreHooks.
Executed == hkCall.done /\ hkCall.op = "executeTools"
PreCalls == hkCall.response.pre.calls
PreResult == hkCall.response.pre.result

\* What an invoked hook did: it did not answer within the timeout of its
\* stored hook, or it returned Deny, or it returned Modify.
TimedOut(c) == c.Timeout > 0 /\ c.hook.late
ReturnedDeny(c) == ~TimedOut(c) /\ c.hook.kind = "deny"
ReturnedModify(c) == ~TimedOut(c) /\ c.hook.kind = "modify"

\* C26: the pre-hooks that match a tool call run in the order in which they
\* were registered, whatever patterns they were registered on.
C26_RegistrationOrder ==
    Executed =>
        \A i, j \in DOMAIN PreCalls :
            i < j => PreCalls[i].hook.n < PreCalls[j].hook.n

\* C27: the first pre-hook that returns Deny (or does not answer within its
\* timeout) ends RunPreHooks: its Deny (or Deny "hook timed out") is the
\* result and no later hook is invoked; executeTools then answers
\* "Tool execution denied: <reason>" as an error without invoking the
\* tool's handler. Without such a hook every matching hook is invoked and
\* the result is not Deny; with no matching hook it is Allow.
C27_DenyShortCircuits ==
    Executed =>
        LET stops == {i \in DOMAIN PreCalls :
                        ReturnedDeny(PreCalls[i]) \/ TimedOut(PreCalls[i])}
            matching == MatchingHooks(db, hkCall.ToolName)
        IN  /\ \A i \in stops :
                 /\ i = Len(PreCalls)
                 /\ PreResult =
                        DenyHook(IF TimedOut(PreCalls[i]) THEN "hook timed out"
                                 ELSE Reasons[PreCalls[i].hook.n])
                 /\ hkCall.response.IsError
                 /\ hkCall.response.Content =
                        <<"Tool execution denied: ", PreResult.Reason>>
                 /\ ~hkCall.response.executed
            /\ {c.hook : c \in SeqRange(PreCalls)} \subseteq matching
            /\ stops = {} =>
                 /\ {c.hook : c \in SeqRange(PreCalls)} = matching
                 /\ PreResult.Decision # "deny"
                 /\ hkCall.response.executed = (hkCall.ToolName \in AgentTools)
            /\ matching = {} => PreResult = AllowHook

\* Witness for C27: two hooks match the call of a registered tool, the
\* first of them to run denies, and the other one is not invoked.
C27_Witness ==
    /\ Executed
    /\ hkCall.ToolName \in AgentTools
    /\ Cardinality(MatchingHooks(db, hkCall.ToolName)) >= 2
    /\ Len(PreCalls) = 1
    /\ ReturnedDeny(PreCalls[1])
    /\ ~hkCall.response.executed

\* The input a modifying hook hands on: what it returned for the input it
\* was invoked with.
HandedOn(c) == HookAnswer(c.hook, c.Input).ModifiedInput

\* Each invoked hook receives the input as left by the latest hook before
\* it that returned Modify (the original input if there is none).
InputsChained ==
    \A i \in DOMAIN PreCalls :
        LET before == {j \in 1..(i - 1) : ReturnedModify(PreCalls[j])}
        IN  PreCalls[i].Input =
                IF before = {} THEN hkCall.Input
                ELSE HandedOn(PreCalls[CHOOSE j \in before :
                                          \A k \in before : k <= j])

\* The result is Modify and carries the input of the last modifying hook.
FinalIsLastModified ==
    LET mods == {j \in DOMAIN PreCalls : ReturnedModify(PreCalls[j])}
        last == CHOOSE j \in mods : \A k \in mods : k <= j
    IN  /\ PreResult.Decision = "modify"
        /\ PreResult.ModifiedInput = HandedOn(PreCalls[last])
        /\ hkCall.response.executed =>
               hkCall.response.handlerInput = HandedOn(PreCalls[last])

\* C28 as stated: inputs are chained, and when some hook modified and none
\* returned Deny, the result is Modify with the fully chained input.
C28_ModifyChainingNoDeny ==
    Executed =>
        /\ InputsChained
        /\ (/\ \E i \in DOMAIN PreCalls : ReturnedModify(PreCalls[i])
            /\ \A i \in DOMAIN PreCalls : ~ReturnedDeny(PreCalls[i]))
           => FinalIsLastModified

\* C28: inputs are chained, and when some hook modified and none returned
\* Deny or timed out, the result is Modify with the fully chained input.
C28_ModifyChaining ==
    Executed =>
        /\ InputsChained
        /\ (/\ \E i \in DOMAIN PreCalls : ReturnedModify(PreCalls[i])
            /\ \A i \in DOMAIN PreCalls :
                  ~ReturnedDeny(PreCalls[i]) /\ ~TimedOut(PreCalls[i]))
           => FinalIsLastModified

\* Witness for C28: two hooks modify one after the other, the second on the
\* first one's output, and the tool's handler gets the second one's output.
C28_Witness ==
    /\ Executed
    /\ Len(PreCalls) >= 2
    /\ ReturnedModify(PreCalls[1])
    /\ ReturnedModify(PreCalls[2])
    /\ PreCalls[2].Input # hkCall.Input
    /\ hkCall.response.executed
    /\ Len(hkCall.response.handlerInput) = Len(hkCall.Input) + 2

-----------------------------------------------------------------------------
(* Store: concurrent writers and readers, one memdb transaction per write  *)

\* The memdb writer lock: db.Txn(true) blocks while another write
\* transaction is open.
WriterLockFree == \A w \in Writers : wt[w] = NoTxn

\* db.Txn(true) and the lookup that opens txn.Insert / txn.Delete.  A commit
\* ends the life of the result a reader was handed before it.
BeginWrite(w, kind, table, obj) ==
    /\ wt[w] = NoTxn
    /\ WriterLockFree
    /\ wt' = [wt EXCEPT ![w] = TxnBegin(db, kind, table, obj)]
    /\ UNCHANGED <<db, snap, snapSeen, lastRead>>
    /\ UNCHANGED nonStore

TxnInsertTool(w, tool) == BeginWrite(w, "insert", "tools", tool)
TxnDeleteTool(w, name) == BeginWrite(w, "delete", "tools", [Name |-> name])
TxnInsertSkill(w, skill) == BeginWrite(w, "insert", "skills", skill)
TxnDeleteSkill(w, name) == BeginWrite(w, "delete", "skills", [Name |-> name])

\* txn.Insert / txn.Delete bring the indexes of the table up to date one
\* after the other (the schema's index map is ranged over in any order).
TxnWrite(w) ==
    /\ wt[w] # NoTxn
    /\ \E index \in wt[w].pending :
          wt' = [wt EXCEPT ![w] = TxnStepIndex(wt[w], index)]
    /\ lastRead' = NoRead
    /\ UNCHANGED <<db, snap, snapSeen>>
    /\ UNCHANGED nonStore

\* Delete of an absent key returns before Commit: the deferred Abort ends
\* the transaction and nothing is published.
TxnAborts(t) == t.kind = "delete" /\ t.existing = NilObj

\* txn.Commit(): the working root becomes the committed root in one store.
TxnCommit(w) ==
    /\ wt[w] # NoTxn
    /\ wt[w].pending = {}
    /\ ~TxnAborts(wt[w])
    /\ db' = wt[w].root
    /\ wt' = [wt EXCEPT ![w] = NoTxn]
    /\ lastRead' = NoRead
    /\ UNCHANGED <<snap, snapSeen>>
    /\ UNCHANGED nonStore

TxnAbort(w) ==
    /\ wt[w] # NoTxn
    /\ TxnAborts(wt[w])
    /\ wt' = [wt EXCEPT ![w] = NoTxn]
    /\ UNCHANGED <<db, snap, snapSeen, lastRead>>
    /\ UNCHANGED nonStore

\* A reader goroutine: one read operation in its own read transaction.
StoreRead ==
    /\ \/ \E n \in ToolNames :
            lastRead' = [op |-> "GetTool", arg |-> n,
                         out |-> LET o == GetTool(ReaderRoot, n)
                                 IN  IF o = NilObj THEN <<>> ELSE <<o>>]
       \/ lastRead' = [op |-> "ListTools", arg |-> "", out |-> ListTools(ReaderRoot)]
       \/ \E s \in Sources :
            lastRead' = [op |-> "ListToolsBySource", arg |-> s,
                         out |-> ListToolsBySource(ReaderRoot, s)]
       \/ \E t \in Tags :
            lastRead' = [op |-> "ListToolsByTag", arg |-> t,
                         out |-> ListToolsByTag(ReaderRoot, t)]
       \/ \E n \in SkillNames :
            lastRead' = [op |-> "GetSkill", arg |-> n,
                         out |-> LET o == GetSkill(ReaderRoot, n)
                                 IN  IF o = NilObj THEN <<>> ELSE <<o>>]
       \/ lastRead' = [op |-> "ListSkills", arg |-> "", out |-> ListSkills(ReaderRoot)]
       \/ \E c \in Categories :
            lastRead' = [op |-> "ListSkillsByCategory", arg |-> c,
                         out |-> ListSkillsByCategory(ReaderRoot, c)]
       \/ \E t \in Tags :
            lastRead' = [op |-> "ListSkillsByTag", arg |-> t,
                         out |-> ListSkillsByTag(ReaderRoot, t)]
    /\ UNCHANGED <<db, wt, snap, snapSeen>>
    /\ UNCHANGED nonStore

NextTxn ==
    \/ \E w \in Writers, tool \in StoreTools : TxnInsertTool(w, tool)
    \/ \E w \in Writers, name \in ToolNames : TxnDeleteTool(w, name)
    \/ \E w \in Writers, skill \in StoreSkills : TxnInsertSkill(w, skill)
    \/ \E w \in Writers : TxnDeleteSkill(w, "A")
    \/ \E w \in Writers : TxnWrite(w)
    \/ \E w \in Writers : TxnCommit(w)
    \/ \E w \in Writers : TxnAbort(w)
    \/ StoreRead

SpecTxn == Init /\ [][NextTxn]_vars

-----------------------------------------------------------------------------
(* Properties of the Store                                                 *)

\* The entry of snapSeen that answers the read recorded in lastRead.
SeenFor(r) ==
    CASE r.op = "Tools"            -> snapSeen.Tools
      [] r.op = "ToolsBySource"    -> snapSeen.ToolsBySource[r.arg]
      [] r.op = "ToolsByTag"       -> snapSeen.ToolsByTag[r.arg]
      [] r.op = "Skills"           -> snapSeen.Skills
      [] r.op = "SkillsByCategory" -> snapSeen.SkillsByCategory[r.arg]

\* C1: snapshot isolation. Whatever InsertTool, DeleteTool, InsertSkill and
\* DeleteSkill calls follow Store.Snapshot(), every read through the handle
\* (Tools, ToolsBySource, ToolsByTag, Skills, SkillsByCategory) returns what
\* it returned at the moment Snapshot() was called.
C1_SnapshotIsolation ==
    snap # NoSnap =>
        /\ SnapReads(snap) = snapSeen
        /\ lastRead # NoRead => lastRead.out = SeenFor(lastRead)

\* A snapshot is held, the store has since been written so that the same
\* reads on the live store differ, and a read through the handle returned.
C1_Witness ==
    /\ snap # NoSnap
    /\ SnapReads([held |-> TRUE, txn |-> db]).Tools # snapSeen.Tools
    /\ SnapReads([held |-> TRUE, txn |-> db]).Skills # snapSeen.Skills
    /\ lastRead # NoRead
    /\ lastRead.op = "ToolsByTag"
    /\ lastRead.out # <<>>

ObjsIn(root, table, index) == {e[2] : e \in root[table][index]}

\* An object of a table is entered in the index under each of its values.
InIndex(root, table, index, obj) ==
    \A v \in IndexVals(index, obj) : <<v, obj>> \in root[table][index]

\* Every index of every table holds the same objects: an object entered in
\* one index is entered in every index it belongs to, each entry stands
\* under a value of its object, and a primary key has one object.
IndexesAgree(root) ==
    \A table \in Tables :
        /\ \A i1 \in storeSchema(table), i2 \in storeSchema(table) :
              \A o \in ObjsIn(root, table, i1) : InIndex(root, table, i2, o)
        /\ \A ix \in storeSchema(table) :
              \A e \in root[table][ix] : e[1] \in IndexVals(ix, e[2])
        /\ \A e \in root[table]["id"], f \in root[table]["id"] :
              e[1] = f[1] => e = f

ReadTable(r) ==
    IF r.op \in {"GetTool", "ListTools", "ListToolsBySource", "ListToolsByTag"}
    THEN "tools" ELSE "skills"

\* C2: writes are atomic to concurrent readers. Under every interleaving of
\* writers and readers at most one write transaction is open, the root a
\* reader sees has every object in every index it belongs to, and no record
\* a read returned is missing from another index of its table.
C2_AtomicWrites ==
    /\ Cardinality({w \in Writers : wt[w] # NoTxn}) <= 1
    /\ IndexesAgree(ReaderRoot)
    /\ lastRead # NoRead =>
          \A i \in DOMAIN lastRead.out :
              \A ix \in storeSchema(ReadTable(lastRead)) :
                  InIndex(ReaderRoot, ReadTable(lastRead), ix, lastRead.out[i])

\* A writer is in the middle of a transaction whose working root has an
\* object in one index and not in another, while a reader's read of a
\* secondary index has returned records.
C2_Witness ==
    /\ \E w \in Writers :
          /\ wt[w] # NoTxn
          /\ wt[w].existing # NilObj
          /\ ~IndexesAgree(wt[w].root)
    /\ lastRead # NoRead
    /\ lastRead.op = "ListToolsByTag"
    /\ Len(lastRead.out) = 2

\* The records of a list other than the one of this name.
Without(list, name) == SelectSeq(list, LAMBDA o : o.Name # name)

Named(list, name) == {i \in DOMAIN list : list[i].Name = name}

\* C11: round trip and upsert. After an InsertTool(r) that succeeds,
\* GetTool(r.Name) returns a record equal to r in every field, ListTools has
\* exactly one record of that name, and every other record of the tools
\* table, and the other tables, are as before.
C11_RoundTripUpsert ==
    [][\A tool \in StoreTools \cup BadTools :
          (InsertTool(tool) /\ InsertToolErr(tool) = "") =>
              /\ GetTool(db', tool.Name) = tool
              /\ Cardinality(Named(ListTools(db'), tool.Name)) = 1
              /\ Without(ListTools(db'), tool.Name)
                    = Without(ListTools(db), tool.Name)
              /\ \A n \in ToolNames \ {tool.Name} :
                    GetTool(db', n) = GetTool(db, n)
              /\ db'.skills = db.skills
              /\ db'.hooks = db.hooks]_vars

\* A record of t1 was replaced since the snapshot by one that differs in
\* description, schema, source, tags and handler, next to a record of t2.
C11_Witness ==
    /\ snap # NoSnap
    /\ GetTool(snap.txn, "t1") = StoredTool("t1", "d1", "native", <<"x", "y">>)
    /\ GetTool(db, "t1")
          = WithHandler(StoredTool("t1", "d2", "skill:A", <<"x">>), "s2", "f2")
    /\ GetTool(db, "t2") # NilObj
    /\ GetTool(db, "t2") = GetTool(snap.txn, "t2")

\* C12: deletion completeness. After DeleteTool(name) on a tool that
\* exists, GetTool, ListTools, ListToolsBySource (every source) and
\* ListToolsByTag (every tag) return no record of that name, and return
\* the other records as before.
C12_DeletionComplete ==
    [][\A name \in ToolNames :
          (DeleteTool(name) /\ GetTool(db, name) # NilObj) =>
              /\ DeleteToolErr(db, name) = ""
              /\ GetTool(db', name) = NilObj
              /\ ListTools(db') = Without(ListTools(db), name)
              /\ Named(ListTools(db'), name) = {}
              /\ \A s \in Sources :
                    /\ Named(ListToolsBySource(db', s), name) = {}
                    /\ ListToolsBySource(db', s)
                          = Without(ListToolsBySource(db, s), name)
              /\ \A t \in Tags :
                    /\ Named(ListToolsByTag(db', t), name) = {}
                    /\ ListToolsByTag(db', t)
                          = Without(ListToolsByTag(db, t), name)
              /\ \A n \in ToolNames \ {name} :
                    GetTool(db', n) = GetTool(db, n)]_vars

\* A tool with two tags was deleted since the snapshot, another tool with
\* the same source and tags is still there.
C12_Witness ==
    /\ snap # NoSnap
    /\ GetTool(snap.txn, "t1") = StoredTool("t1", "d1", "native", <<"x", "y">>)
    /\ GetTool(snap.txn, "t2") = StoredTool("t2", "d1", "native", <<"x", "y">>)
    /\ GetTool(db, "t1") = NilObj
    /\ GetTool(db, "t2") = GetTool(snap.txn, "t2")

\* The records of a table that carry the tag now.
Tagged(root, table, tag) ==
    {o \in ObjsIn(root, table, "id") : tag \in SeqRange(o.Tags)}

\* C13: multi-valued tag index. In every state reached by InsertTool,
\* DeleteTool, InsertSkill and DeleteSkill, ListToolsByTag(t) returns
\* exactly the tools whose current tags contain t, each once, and
\* ListSkillsByTag(t) does so for the skills.
C13_TagIndex ==
    \A t \in Tags :
        /\ NoDup(ListToolsByTag(db, t))
        /\ SeqRange(ListToolsByTag(db, t)) = Tagged(db, "tools", t)
        /\ NoDup(ListSkillsByTag(db, t))
        /\ SeqRange(ListSkillsByTag(db, t)) = Tagged(db, "skills", t)

\* Since the snapshot t1 lost the tag y in an upsert and the skill A lost
\* its tag x; t2 still has both tags.
C13_Witness ==
    /\ snap # NoSnap
    /\ GetTool(snap.txn, "t1") # NilObj
    /\ GetTool(snap.txn, "t1").Tags = <<"x", "y">>
    /\ GetTool(db, "t1") # NilObj
    /\ GetTool(db, "t1").Tags = <<"x">>
    /\ GetTool(db, "t2") # NilObj
    /\ GetTool(db, "t2").Tags = <<"x", "y">>
    /\ GetSkill(snap.txn, "A") # NilObj
    /\ GetSkill(snap.txn, "A").Tags = <<"x">>
    /\ GetSkill(db, "A") # NilObj
    /\ GetSkill(db, "A").Tags = <<>>

\* C14: Delete is idempotent. DeleteTool, DeleteSkill and DeleteHook return
\* no error; on a key that is absent they leave every table as it is, and
\* a second Delete of the same key changes nothing more.
C14_DeleteIdempotent ==
    [][/\ \A name \in ToolNames :
             DeleteTool(name) =>
                 /\ DeleteToolErr(db, name) = ""
                 /\ GetTool(db, name) = NilObj => db' = db
                 /\ DeleteToolErr(db', name) = ""
                 /\ DeleteToolRoot(db', name) = db'
       /\ DeleteSkill("A") =>
             /\ DeleteSkillErr(db, "A") = ""
             /\ GetSkill(db, "A") = NilObj => db' = db
             /\ DeleteSkillErr(db', "A") = ""
             /\ DeleteSkillRoot(db', "A") = db'
       /\ \A id \in HookKeys :
             DeleteHook(id) =>
                 /\ DeleteHookErr(db, id) = ""
                 /\ GetHook(db, id) = NilObj => db' = db
                 /\ DeleteHookErr(db', id) = ""
                 /\ DeleteHookRoot(db', id) = db']_vars

\* The generated hook hook-1 was inserted and is deleted again, and the
\* tool t1 and the skill A are absent, next to a hook and a tool that exist.
C14_Witness ==
    /\ hookIDCounter >= 1
    /\ GetHook(db, "hook-1") = NilObj
    /\ GetHook(db, "h1") # NilObj
    /\ GetTool(db, "t1") = NilObj
    /\ GetTool(db, "t2") # NilObj
    /\ GetSkill(db, "A") = NilObj

-----------------------------------------------------------------------------
(* SkillRegistry: Register, Remove, Resolve                                *)

MaxDeps == 2
MaxNames == 2

ToolDefinition(name, desc) ==
    [Name |-> name, Desc |-> desc, InputSchema |-> "s1"]

\* Sequences of distinct elements of S, of length 0..n.
RECURSIVE DistinctSeqs(_, _)
DistinctSeqs(S, n) ==
    IF n = 0 THEN {<<>>}
    ELSE LET shorter == DistinctSeqs(S, n - 1)
             grown == {<<q, x>> \in {r \in shorter : Len(r) = n - 1} \X S :
                          \A i \in DOMAIN q : q[i] # x}
         IN  shorter \cup {Append(p[1], p[2]) : p \in grown}

\* The dependency lists a bundle is registered with: other bundles' names.
DepLists(name) == {q \in DistinctSeqs(SkillNames \ {name}, MaxDeps) : NoDup(q)}

\* The tool registries a bundle is registered with: its own tool, alone or
\* with a tool that other bundles bring too.
OwnTool(name) ==
    CASE name = "A" -> "t1"
      [] name = "B" -> "t2"
      [] name = "C" -> "t3"
      [] OTHER -> FillerTools[FillerNo(name)]

ToolSets(name) ==
    IF name = "C" THEN {{OwnTool(name)}}
    ELSE {{OwnTool(name)}, {"t0", OwnTool(name)}}

RECURSIVE InsertToolsKeepOwner(_, _, _, _, _)
\* A loop that leaves a tool that is in the Store as it is.
InsertToolsKeepOwner(root, toolDefs, i, source, tags) ==
    IF i > Len(toolDefs) THEN root
    ELSE InsertToolsKeepOwner(
            IF GetTool(root, toolDefs[i].Name) # NilObj THEN root
            ELSE InsertToolRoot(root,
                                StoredToolOf(toolDefs[i], source, tags, "f1")),
            toolDefs, i + 1, source, tags)

RECURSIVE InsertTools(_, _, _, _, _)
\* Register's loop over toolDefs: one InsertTool per definition.
InsertTools(root, toolDefs, i, source, tags) ==
    IF i > Len(toolDefs) THEN root
    ELSE InsertTools(
            InsertToolRoot(root, StoredToolOf(toolDefs[i], source, tags, "f1")),
            toolDefs, i + 1, source, tags)

\* SkillRegistry.Register(skill, tools): the definitions are listed from the
\* tool registry's own store (in key order), the skill record is written,
\* then every tool with Source "skill:<name>" and the skill's tags.
RegisterRoot(root, skill, toolNames) ==
    LET toolDefs == SortObjs({ToolDefinition(n, "d1") : n \in toolNames})
        stored == StoredSkill(skill.Name, skill.Tags, skill.Category,
                              toolDefs, skill.Dependencies)
    IN  InsertTools(InsertSkillRoot(root, stored), toolDefs, 1,
                    SkillSource(skill.Name), skill.Tags)

RECURSIVE DeleteTools(_, _, _)
DeleteTools(root, tools, i) ==
    IF i > Len(tools) THEN root
    ELSE DeleteTools(DeleteToolRoot(root, tools[i].Name), tools, i + 1)

\* A Remove that deletes the skill record and leaves its tools.
RemoveRootRecordOnly(root, name) == DeleteSkillRoot(root, name)

\* A Remove that gives up, changing nothing, when a tool of the bundle's
\* record is not in the Store.
RemoveRootIfComplete(root, name) ==
    IF /\ GetSkill(root, name) # NilObj
       /\ \A def \in SeqRange(GetSkill(root, name).Tools) :
             GetTool(root, def.Name) # NilObj
    THEN DeleteSkillRoot(
            DeleteTools(root, ListToolsBySource(root, SkillSource(name)), 1), name)
    ELSE root

\* SkillRegistry.Remove(name): the tools listed by source are deleted, then
\* the skill record.
RemoveRoot(root, name) ==
    DeleteSkillRoot(
        DeleteTools(root, ListToolsBySource(root, SkillSource(name)), 1), name)

\* ToolRegistry.RegisterWithSource on the registry Resolve builds.
RegisterWithSource(root, def, source, tags) ==
    InsertToolRoot(root, StoredToolOf(def, source, tags, "f1"))

RECURSIVE AddSkillTools(_, _, _, _)
AddSkillTools(registry, stored, i, name) ==
    IF i > Len(stored.Tools) THEN registry
    ELSE AddSkillTools(
            RegisterWithSource(registry, stored.Tools[i], SkillSource(name),
                               stored.Tags),
            stored, i + 1, name)

\* An upper bound on the calls of the closure resolve in one Resolve: the
\* named bundles, and one call per dependency of each bundle expanded once.
ResolveFuel == MaxNames + Cardinality(SkillNames) * (MaxDeps + 1) + 1

\* A resolve without the visited test.
WasResolvedNever(st, name) == FALSE

\* The test that opens the closure: the name was resolved before in this call.
WasResolved(st, name) == name \in st.resolved

RECURSIVE resolve(_, _, _)
RECURSIVE resolveAll(_, _, _, _)
\* The closure resolve of Resolve. st is the state of the call: the
\* resolved map, the registry under construction, the error returned (""
\* for nil), the bundles expanded in order, and the number of calls made.
resolve(root, name, st) ==
    IF st.calls >= ResolveFuel THEN [st EXCEPT !.diverged = TRUE]
    ELSE
    LET st0 == [st EXCEPT !.calls = @ + 1]
    IN  IF WasResolved(st0, name) THEN st0
        ELSE
        LET st1 == [st0 EXCEPT !.resolved = @ \cup {name}]
            stored == GetSkill(root, name)
        IN  IF stored = NilObj
            THEN [st1 EXCEPT !.err = "skill not found", !.missing = name]
            ELSE
            LET st2 == resolveAll(root, stored.Dependencies, 1,
                                  [st1 EXCEPT !.expanded = Append(@, name)])
            IN  IF st2.err # "" \/ st2.diverged THEN st2
                ELSE [st2 EXCEPT
                        !.registry = AddSkillTools(@, stored, 1, name)]

\* A loop that returns after its first element.
resolveAllFirst(root, names, i, st) ==
    IF i > Len(names) \/ i > 1 THEN st ELSE resolve(root, names[i], st)

\* The loops `for _, dep := range stored.Dependencies` and
\* `for _, name := range skillNames`: stop at the first error.
resolveAll(root, names, i, st) ==
    IF i > Len(names) \/ st.err # "" \/ st.diverged THEN st
    ELSE resolveAll(root, names, i + 1, resolve(root, names[i], st))

\* A Resolve that hands out the registry built so far along with the error.
ResolveReturnPartial(st) == [registry |-> st.registry, err |-> st.err]

\* What Resolve returns: (nil, err) on an error, (registry, nil) otherwise.
ResolveReturn(st) ==
    IF st.err # "" THEN [registry |-> NilObj, err |-> st.err]
                   ELSE [registry |-> st.registry, err |-> ""]

\* SkillRegistry.Resolve(skillNames...)
ResolveCall(root, skillNames) ==
    LET st == resolveAll(root, skillNames, 1,
                         [resolved |-> {}, registry |-> NewStore, err |-> "",
                          missing |-> "", expanded |-> <<>>, calls |-> 0,
                          diverged |-> FALSE])
        ret == ResolveReturn(st)
    IN  [done |-> TRUE, names |-> skillNames, registry |-> ret.registry,
         err |-> ret.err, missing |-> st.missing, expanded |-> st.expanded,
         diverged |-> st.diverged]

\* The tags the bundles are registered with.
SkillTags(name) ==
    CASE name = "A" -> <<"x">>
      [] name = "B" -> <<"y">>
      [] name = "C" -> <<"x", "y">>
      [] OTHER -> <<"x">>

Skill(name, deps) ==
    [Name |-> name, Tags |-> SkillTags(name), Category |-> "c1",
     Dependencies |-> deps]

\* A call on the registry runs to its return before the caller's next call.
Register(skill, toolNames) ==
    /\ res = NoRes
    /\ sel = NoSel
    /\ ixCall = NoCall
    /\ db' = RegisterRoot(db, skill, toolNames)
    /\ UNCHANGED <<storeAux, res, idx, hits, sel, hookIDCounter, ixCall, hkCall, run,
                       proc>>

Remove(name) ==
    /\ res = NoRes
    /\ db' = RemoveRoot(db, name)
    /\ UNCHANGED <<storeAux, res, idx, hits, sel, hookIDCounter, ixCall, hkCall, run,
                       proc>>

Resolve(skillNames) ==
    /\ res = NoRes
    /\ res' = ResolveCall(db, skillNames)
    /\ UNCHANGED <<db, storeAux, idx, hits, sel, hookIDCounter, ixCall, hkCall, run,
                       proc>>

\* The caller takes the registry or the error Resolve returned.
ResolveDone ==
    /\ res # NoRes
    /\ res' = NoRes
    /\ UNCHANGED <<db, storeAux, idx, hits, sel, hookIDCounter, ixCall, hkCall, run,
                       proc>>

NameLists == {q \in DistinctSeqs(SkillNames, MaxNames) : NoDup(q) /\ q # <<>>}

NextReg ==
    \/ \E n \in SkillNames :
          \E deps \in DepLists(n), ts \in ToolSets(n) :
              Register(Skill(n, deps), ts)
    \/ \E n \in SkillNames : Remove(n)
    \/ \E names \in NameLists : Resolve(names)
    \/ ResolveDone

SpecReg == Init /\ [][NextReg]_vars

\* The SkillRegistry and direct writes to the tools table of its Store.
NextTruth ==
    \/ \E n \in SkillNames :
          \E deps \in DepLists(n) : Register(Skill(n, deps), {OwnTool(n)})
    \/ \E n \in SkillNames : Remove(n)
    \/ res = NoRes /\ InsertTool(StoredTool("t1", "d1", "native", <<>>))
    \/ res = NoRes /\ \E name \in {"t1", "t2"} : DeleteTool(name)
    \/ \E names \in NameLists : Resolve(names)
    \/ ResolveDone

SpecTruth == Init /\ [][NextTruth]_vars

\* C29: InsertHook does not mutate its argument. After InsertHook of a hook
\* whose ID is empty, the stored hook has an auto-generated ID and the
\* caller's struct is as it was: its ID is still empty.
C29_InsertHookKeepsArgument ==
    (hkCall.done /\ hkCall.op = "InsertHook" /\ hkCall.hook.ID = ""
                 /\ hkCall.err = "") =>
        /\ hkCall.after = hkCall.hook
        /\ hkCall.after.ID = ""

-----------------------------------------------------------------------------
(* Properties of SkillRegistry.Register                                    *)

\* The bundle record and the tools of the given set as Register leaves them:
\* the record is found under the bundle's name with the bundle's fields, and
\* every tool of the set is in the Store with the bundle's source and tags.
Stamped(root, skill, toolNames) ==
    /\ GetSkill(root, skill.Name) # NilObj
    /\ GetSkill(root, skill.Name).Name = skill.Name
    /\ GetSkill(root, skill.Name).Tags = skill.Tags
    /\ GetSkill(root, skill.Name).Dependencies = skill.Dependencies
    /\ SeqRange(GetSkill(root, skill.Name).Tools)
          = {ToolDefinition(n, "d1") : n \in toolNames}
    /\ \A n \in toolNames :
          /\ GetTool(root, n) # NilObj
          /\ GetTool(root, n).Source = SkillSource(skill.Name)
          /\ GetTool(root, n).Tags = skill.Tags
          /\ {e[1] : e \in {f \in root["tools"]["source"] : f[2].Name = n}}
                = {SkillSource(skill.Name)}
          /\ {e[1] : e \in {f \in root["tools"]["tags"] : f[2].Name = n}}
                = SeqRange(skill.Tags)

\* C20: Register stamps ownership. After Register(skill, tools) the bundle
\* record is retrievable under skill.Name, and every tool of the given set
\* is in the Store with Source "skill:" + skill.Name and with the bundle's
\* tags, whatever source and tags it carried before.
C20_RegisterStamps ==
    [][\A n \in SkillNames :
          \A ts \in ToolSets(n) :
              Register(Skill(n, <<>>), ts) => Stamped(db', Skill(n, <<>>), ts)]_vars

\* The tool t0 was registered with bundle A (A's record lists it) and is
\* now owned by bundle B, with B's tags and none of A's; only t1 is
\* found under A's tag, and no tool is native.
C20_Witness ==
    /\ GetSkill(db, "A") # NilObj
    /\ ToolDefinition("t0", "d1") \in SeqRange(GetSkill(db, "A").Tools)
    /\ GetSkill(db, "B") # NilObj
    /\ SeqRange(GetSkill(db, "B").Tools)
          = {ToolDefinition("t0", "d1"), ToolDefinition("t2", "d1")}
    /\ GetTool(db, "t0") # NilObj
    /\ GetTool(db, "t0").Source = "skill:B"
    /\ GetTool(db, "t0").Tags = <<"y">>
    /\ GetTool(db, "t1") # NilObj
    /\ ListToolsByTag(db, "x") = <<GetTool(db, "t1")>>
    /\ ListToolsBySource(db, "native") = <<>>

\* The entries of a table, index by index, of the objects that satisfy keep.
EntriesOf(root, table, keep(_)) ==
    [ix \in storeSchema(table) |-> {e \in root[table][ix] : keep(e[2])}]

\* C21: cascading removal. After Remove(name) the bundle is absent, no tool
\* with Source "skill:" + name is left in the Store, and every tool with
\* another Source and every other bundle record is as it was.
C21_CascadingRemoval ==
    [][\A n \in SkillNames :
          Remove(n) =>
            LET Other(t) == t.Source # SkillSource(n)
                NotIt(sk) == sk.Name # n
            IN  /\ GetSkill(db', n) = NilObj
                /\ ListToolsBySource(db', SkillSource(n)) = <<>>
                /\ \A t \in SeqRange(ListTools(db')) : Other(t)
                /\ EntriesOf(db', "tools", Other) = EntriesOf(db, "tools", Other)
                /\ EntriesOf(db', "skills", NotIt) = EntriesOf(db, "skills", NotIt)
                /\ db'["skills"] = EntriesOf(db', "skills", NotIt)]_vars

\* Bundle A was removed while it owned t0 and t1: B's record still lists t0,
\* which A had taken over from B, and t0 is gone with A; B's tool t2 and the
\* native tool t3 are in the Store.
C21_Witness ==
    /\ GetSkill(db, "A") = NilObj
    /\ GetTool(db, "t0") = NilObj
    /\ GetTool(db, "t1") = NilObj
    /\ GetSkill(db, "B") # NilObj
    /\ ToolDefinition("t0", "d1") \in SeqRange(GetSkill(db, "B").Tools)
    /\ GetTool(db, "t2") # NilObj
    /\ GetTool(db, "t2").Source = "skill:B"
    /\ GetTool(db, "t3") # NilObj
    /\ GetTool(db, "t3").Source = "native"

\* C37: ownership invariant. For every bundle S of the Store, the tools of
\* the Store with Source "skill:" + S are the tools S's record lists.
C37_OwnershipInvariant ==
    \A n \in SkillNames :
        GetSkill(db, n) # NilObj =>
            {t.Name : t \in SeqRange(ListToolsBySource(db, SkillSource(n)))}
              = {def.Name : def \in SeqRange(GetSkill(db, n).Tools)}

\* C23: registration feeds the BM25Index. After Register(skill, tools) the
\* bundle is a document of the index (a Search that shares a token with its
\* description or tags can return its name) without an Index call by the
\* caller.
C23_RegisterFeedsIndex ==
    [][\A n \in SkillNames :
          \A deps \in DepLists(n) :
              Register(Skill(n, deps), {OwnTool(n)}) => n \in DOMAIN idx'.docs]_vars

-----------------------------------------------------------------------------
(* Properties of SkillRegistry.Resolve                                     *)

RECURSIVE ReachFrom(_, _)
\* The names reachable from S through the dependency lists of the bundles
\* that exist in the Store.
ReachFrom(root, S) ==
    LET next == S \cup UNION {SeqRange(GetSkill(root, n).Dependencies) :
                              n \in {m \in S : GetSkill(root, m) # NilObj}}
    IN  IF next = S THEN S ELSE ReachFrom(root, next)

DepClosure(root, names) == ReachFrom(root, SeqRange(names))

AllExist(root, S) == \A n \in S : GetSkill(root, n) # NilObj

\* The capabilities of a bundle: the definitions of its record.
BundleTools(root, name) == SeqRange(GetSkill(root, name).Tools)

RegistryHas(registry, def) ==
    /\ registry # NilObj
    /\ GetTool(registry, def.Name) # NilObj
    /\ GetTool(registry, def.Name).Desc = def.Desc

\* The names of the tools of a registry.
ToolNamesOf(registry) == {t.Name : t \in SeqRange(ListTools(registry))}

\* The tools of the Store owned by a bundle of the set.
OwnedBy(root, bundles) ==
    {t \in SeqRange(ListTools(root)) :
        \E b \in bundles : t.Source = SkillSource(b)}

\* C22: the Store is the source of truth for Resolve. The names in the
\* registry Resolve(n) returns are exactly the tools of the Store's tools
\* table whose Source is "skill:" + b for a bundle b of the dependency
\* closure of n; a tool deleted from the Store is not returned.
C22_StoreIsTruth ==
    (res # NoRes /\ res.err = "") =>
        ToolNamesOf(res.registry)
            = {t.Name : t \in OwnedBy(db, DepClosure(db, res.names))}

\* C3: transitive resolution. When every bundle reachable from the named
\* bundles exists, Resolve returns no error and a registry that has every
\* capability of every bundle of the dependency closure.
C3_TransitiveResolution ==
    (res # NoRes /\ AllExist(db, DepClosure(db, res.names))) =>
        /\ res.err = ""
        /\ \A b \in DepClosure(db, res.names) :
              \A def \in BundleTools(db, b) : RegistryHas(res.registry, def)

\* Resolve(A) returned on the chain A -> B -> C.
C3_Witness ==
    /\ res # NoRes
    /\ res.names = <<"A">>
    /\ GetSkill(db, "A") # NilObj /\ GetSkill(db, "A").Dependencies = <<"B">>
    /\ GetSkill(db, "B") # NilObj /\ GetSkill(db, "B").Dependencies = <<"C">>
    /\ GetSkill(db, "C") # NilObj /\ GetSkill(db, "C").Dependencies = <<>>
    /\ \A n \in {"t0", "t1", "t2", "t3"} : GetTool(res.registry, n) # NilObj

\* C4: Resolve fails as a whole. When a named bundle or a bundle reachable
\* from one is absent from the Store, Resolve returns an error and a nil
\* registry, however many bundles were expanded before.
C4_ResolveMissingFails ==
    (res # NoRes /\ ~AllExist(db, DepClosure(db, res.names))) =>
        /\ res.err # ""
        /\ res.registry = NilObj

\* Resolve met an absent bundle, named by a dependency list, after it had
\* expanded two bundles and resolved the first named bundle in full.
C4_Witness ==
    /\ res # NoRes
    /\ res.err # ""
    /\ Len(res.names) = 2
    /\ res.expanded = res.names
    /\ GetSkill(db, res.names[1]) # NilObj
    /\ GetSkill(db, res.names[1]).Dependencies = <<>>
    /\ GetSkill(db, res.missing) = NilObj
    /\ res.registry = NilObj

\* A bundle is on a dependency cycle.
OnCycle(root, name) ==
    /\ GetSkill(root, name) # NilObj
    /\ name \in ReachFrom(root, SeqRange(GetSkill(root, name).Dependencies))

\* C5: cycle termination. On every dependency graph Resolve ends within the
\* calls one expansion per bundle allows and expands no bundle twice; when a
\* bundle of the closure is on a cycle and every bundle of the closure
\* exists, Resolve returns no error and the capabilities of that bundle.
C5_CycleTermination ==
    res # NoRes =>
        /\ ~res.diverged
        /\ NoDup(res.expanded)
        /\ \A b \in DepClosure(db, res.names) :
              (OnCycle(db, b) /\ AllExist(db, DepClosure(db, res.names))) =>
                  /\ res.err = ""
                  /\ \A def \in BundleTools(db, b) :
                        RegistryHas(res.registry, def)

\* Resolve(A) returned on the graph A -> B -> A where C is reachable by two
\* paths.
C5_Witness ==
    /\ res # NoRes
    /\ res.names = <<"A">>
    /\ GetSkill(db, "A") # NilObj /\ GetSkill(db, "A").Dependencies = <<"B", "C">>
    /\ GetSkill(db, "B") # NilObj /\ GetSkill(db, "B").Dependencies = <<"C", "A">>
    /\ GetSkill(db, "C") # NilObj
    /\ res.expanded = <<"A", "B", "C">>

-----------------------------------------------------------------------------
(* BM25Index (search.go)                                                   *)

MaxDocs == 3
MaxK == 2

EmptyMap == [x \in {} |-> 0]
MapPut(m, k, v) == [x \in DOMAIN m \cup {k} |-> IF x = k THEN v ELSE m[x]]
MapDel(m, k) == [x \in DOMAIN m \ {k} |-> m[x]]

\* unicode.IsLetter(r) || unicode.IsDigit(r) on the characters of the model.
IsLetterOrDigit(c) == c \in {"a", "b", "A", "B", "1"}

\* strings.ToLower on one character.
ToLower(c) ==
    CASE c = "A" -> "a"
      [] c = "B" -> "b"
      [] OTHER -> c

RECURSIVE tokenizeFrom(_, _, _, _)
\* tokenize's loop: current is the token being built, tokens those closed.
tokenizeFrom(text, i, current, tokens) ==
    IF i > Len(text)
    THEN IF Len(current) > 0 THEN Append(tokens, current) ELSE tokens
    ELSE IF IsLetterOrDigit(ToLower(text[i]))
         THEN tokenizeFrom(text, i + 1, Append(current, ToLower(text[i])), tokens)
         ELSE IF Len(current) > 0
              THEN tokenizeFrom(text, i + 1, <<>>, Append(tokens, current))
              ELSE tokenizeFrom(text, i + 1, <<>>, tokens)

\* tokenize: the lower-cased runs of letters and digits of a text (a text
\* is a sequence of characters, a token a non-empty sequence of them).
tokenize(text) == tokenizeFrom(text, 1, <<>>, <<>>)

\* termFrequencies: how often each token occurs.
termFrequencies(tokens) ==
    [t \in SeqRange(tokens) |-> Cardinality({i \in DOMAIN tokens : tokens[i] = t})]

RECURSIVE JoinTags(_, _)
\* " " + strings.Join(tags, " ") from the i-th tag on.
JoinTags(tags, i) ==
    IF i > Len(tags) THEN <<>> ELSE <<" ">> \o tags[i] \o JoinTags(tags, i + 1)

\* Index: the text followed by the space-joined tags.
Combined(text, tags) == IF Len(tags) > 0 THEN text \o JoinTags(tags, 1) ELSE text

bm25Doc(id, tokens) ==
    [id |-> id, tf |-> termFrequencies(tokens), length |-> Len(tokens)]

RECURSIVE Gcd(_, _)
Gcd(a, b) == IF b = 0 THEN a ELSE Gcd(b, a % b)

RECURSIVE SumLengths(_, _)
SumLengths(docs, ids) ==
    IF ids = {} THEN 0
    ELSE LET d == CHOOSE x \in ids : TRUE
         IN  docs[d].length + SumLengths(docs, ids \ {d})

\* recomputeAvgLen: total length over number of documents, 0 without any.
recomputeAvgLen(docs) ==
    IF DOMAIN docs = {} THEN [num |-> 0, den |-> 1]
    ELSE LET total == SumLengths(docs, DOMAIN docs)
             n == Cardinality(DOMAIN docs)
             g == Gcd(total, n)
         IN  [num |-> total \div g, den |-> n \div g]

\* A decrement that keeps the entries that reach 0.
DfDecrementKeepZero(df, terms) ==
    [t \in DOMAIN df |-> IF t \in terms THEN df[t] - 1 ELSE df[t]]

RECURSIVE DfDecrement(_, _)
\* for term := range tf { df[term]--; if df[term] <= 0 { delete(df, term) } }
DfDecrement(df, terms) ==
    IF terms = {} THEN df
    ELSE LET t == CHOOSE x \in terms : TRUE
             old == IF t \in DOMAIN df THEN df[t] ELSE 0
         IN  DfDecrement(IF old - 1 <= 0 THEN MapDel(df, t)
                                         ELSE MapPut(df, t, old - 1),
                         terms \ {t})

RECURSIVE DfIncrement(_, _)
\* for term := range tf { df[term]++ }
DfIncrement(df, terms) ==
    IF terms = {} THEN df
    ELSE LET t == CHOOSE x \in terms : TRUE
             old == IF t \in DOMAIN df THEN df[t] ELSE 0
         IN  DfIncrement(MapPut(df, t, old + 1), terms \ {t})

\* The document frequencies left once a document's terms are taken out.
DropOld(df, old) == DfDecrement(df, DOMAIN old.tf)

\* An Index that leaves the document frequencies of the replaced document
\* in the table.
IndexDocMerge(ix, id, text, tags) ==
    LET doc == bm25Doc(id, tokenize(Combined(text, tags)))
        docs == MapPut(ix.docs, id, doc)
    IN  [docs |-> docs, df |-> DfIncrement(ix.df, DOMAIN doc.tf),
         avgLen |-> recomputeAvgLen(docs)]

\* BM25Index.Index(id, text, tags)
IndexDoc(ix, id, text, tags) ==
    LET doc == bm25Doc(id, tokenize(Combined(text, tags)))
        df1 == IF id \in DOMAIN ix.docs THEN DropOld(ix.df, ix.docs[id]) ELSE ix.df
        docs == MapPut(ix.docs, id, doc)
    IN  [docs |-> docs, df |-> DfIncrement(df1, DOMAIN doc.tf),
         avgLen |-> recomputeAvgLen(docs)]

\* A Remove that drops the statistics of the document and keeps the
\* document.
RemoveDocStatsOnly(ix, id) ==
    IF id \notin DOMAIN ix.docs THEN ix
    ELSE [docs |-> ix.docs, df |-> DropOld(ix.df, ix.docs[id]),
          avgLen |-> ix.avgLen]

\* BM25Index.Remove(id)
RemoveDoc(ix, id) ==
    IF id \notin DOMAIN ix.docs THEN ix
    ELSE LET docs == MapDel(ix.docs, id)
         IN  [docs |-> docs, df |-> DropOld(ix.df, ix.docs[id]),
              avgLen |-> recomputeAvgLen(docs)]

RECURSIVE DfRebuild(_, _, _)
DfRebuild(docs, ids, df) ==
    IF ids = {} THEN df
    ELSE LET d == CHOOSE x \in ids : TRUE
         IN  DfRebuild(docs, ids \ {d}, DfIncrement(df, DOMAIN docs[d].tf))

\* BM25Index.Rebuild()
RebuildIndex(ix) ==
    [docs |-> ix.docs, df |-> DfRebuild(ix.docs, DOMAIN ix.docs, EmptyMap),
     avgLen |-> recomputeAvgLen(ix.docs)]

\* math.Log on the integers, in millionths.
LnTable ==
    <<0, 693147, 1098612, 1386294, 1609438, 1791759, 1945910, 2079442,
      2197225, 2302585, 2397895, 2484907, 2564949, 2639057, 2708050, 2772589,
      2833213, 2890372, 2944439, 2995732, 3044522, 3091042, 3135494, 3178054>>

\* idf = log((N - df + 0.5)/(df + 0.5) + 1) = log((2N + 2)/(2df + 1)),
\* in millionths.
Idf(n, dfVal) == LnTable[2 * n + 2] - LnTable[2 * dfVal + 1]

\* A term score that counts a term once, however often it occurs.
TermScoreFlat(ix, doc, term) ==
    LET dfVal == IF term \in DOMAIN ix.df THEN ix.df[term] ELSE 0
        num == ix.avgLen.num
        den == ix.avgLen.den
    IN  (Idf(Cardinality(DOMAIN ix.docs), dfVal) * 22 * num)
        \div (10 * num + 3 * num + 9 * doc.length * den)

\* idf * tf*(k1+1) / (tf + k1*(1 - b + b*length/avgLen)) with k1 = 1.2 and
\* b = 0.75: the fraction is 22*tf*num / (10*tf*num + 3*num + 9*length*den)
\* for avgLen = num/den. In millionths, rounded down.
TermScore(ix, doc, term) ==
    LET tf == doc.tf[term]
        dfVal == IF term \in DOMAIN ix.df THEN ix.df[term] ELSE 0
        num == ix.avgLen.num
        den == ix.avgLen.den
    IN  (Idf(Cardinality(DOMAIN ix.docs), dfVal) * 22 * tf * num)
        \div (10 * tf * num + 3 * num + 9 * doc.length * den)

RECURSIVE DocScore(_, _, _, _)
\* The loop over queryTokens: a term the document lacks adds nothing.
DocScore(ix, doc, queryTokens, i) ==
    IF i > Len(queryTokens) THEN 0
    ELSE (IF queryTokens[i] \in DOMAIN doc.tf
          THEN TermScore(ix, doc, queryTokens[i]) ELSE 0)
         + DocScore(ix, doc, queryTokens, i + 1)

RECURSIVE ScoredAll(_, _, _, _)
\* A loop that keeps the documents of score 0 too.
ScoredAll(ix, queryTokens, order, i) ==
    IF i > Len(order) THEN <<>>
    ELSE LET sc == DocScore(ix, ix.docs[order[i]], queryTokens, 1)
         IN  <<[ID |-> order[i], Score |-> sc]>>
             \o ScoredAll(ix, queryTokens, order, i + 1)

RECURSIVE Scored(_, _, _, _)
\* The loop over idx.docs, in the order the map is ranged over: the
\* documents with a positive score.
Scored(ix, queryTokens, order, i) ==
    IF i > Len(order) THEN <<>>
    ELSE LET sc == DocScore(ix, ix.docs[order[i]], queryTokens, 1)
         IN  (IF sc > 0 THEN <<[ID |-> order[i], Score |-> sc]>> ELSE <<>>)
             \o Scored(ix, queryTokens, order, i + 1)

\* A sort test that ranks the smaller score first.
MovesLeftReversed(x, y) == x.Score < y.Score

\* The test of the insertion sorts: the element moves left past a smaller
\* score.
MovesLeft(x, y) == x.Score > y.Score

RECURSIVE SiftLeft(_, _)
\* for j := i; j > 0 && results[j].score > results[j-1].score; j--
SiftLeft(r, j) ==
    IF j > 1 /\ MovesLeft(r[j], r[j - 1])
    THEN SiftLeft([r EXCEPT ![j] = r[j - 1], ![j - 1] = r[j]], j - 1)
    ELSE r

\* A sort that leaves the list as it is.
InsertionSortNone(r, i) == r

RECURSIVE InsertionSort(_, _)
InsertionSort(r, i) ==
    IF i > Len(r) THEN r ELSE InsertionSort(SiftLeft(r, i), i + 1)

\* A cut that takes every result.
MinTakesAll(a, b) == b

Min(a, b) == IF a < b THEN a ELSE b

\* BM25Index.Search(query, k), the map idx.docs ranged over in `order`.
Search(ix, query, k, order) ==
    LET queryTokens == tokenize(query)
    IN  IF Len(queryTokens) = 0 \/ k <= 0 THEN <<>>
        ELSE IF DOMAIN ix.docs = {} THEN <<>>
        ELSE LET results == InsertionSort(Scored(ix, queryTokens, order, 1), 2)
             IN  SubSeq(results, 1, Min(k, Len(results)))

\* The keys in key order.
RECURSIVE KeySeq(_)
KeySeq(keys) ==
    IF keys = {} THEN <<>>
    ELSE LET m == CHOOSE k \in keys : \A l \in keys : Rank(k) <= Rank(l)
         IN  <<m>> \o KeySeq(keys \ {m})

\* The rotations of a sequence.
Rotations(q) ==
    {[i \in DOMAIN q |-> q[((i + r - 1) % Len(q)) + 1]] : r \in 0..(Len(q) - 1)}

\* The largest map whose every iteration order is explored.
MaxPermuted == 4

\* The orders in which a Go map with these keys can be ranged over: every
\* permutation of the keys; for a map of more than MaxPermuted keys, the
\* rotations of the key order.
Orders(keys) ==
    IF Cardinality(keys) <= MaxPermuted
    THEN {q \in DistinctSeqs(keys, Cardinality(keys)) : Len(q) = Cardinality(keys)}
    ELSE Rotations(KeySeq(keys))

DocIds == {StrOrder[i] : i \in 1..MaxDocs}

\* The texts and tag lists documents are indexed with, and the queries.
Documents ==
    {[text |-> <<>>, tags |-> <<>>],
     [text |-> <<>>, tags |-> <<<<"a">>>>],
     [text |-> <<"B">>, tags |-> <<>>],
     [text |-> <<"B">>, tags |-> <<<<"a">>>>],
     [text |-> <<"a", " ", "a">>, tags |-> <<>>],
     [text |-> <<"a", "-", "B">>, tags |-> <<>>]}
Queries == {<<>>, <<"a">>, <<"b">>, <<"A", " ", "b">>, <<"-">>}

\* What an Index, Remove or Rebuild call did, as its caller sees it: the
\* arguments, the index before the call, and the error returned ("" for nil).
IndexCall(op, id, text, tags, before) ==
    [done |-> TRUE, op |-> op, id |-> id, text |-> text, tags |-> tags,
     before |-> before, err |-> ""]

\* A call on the index runs to its return before the caller's next call.
Index(id, text, tags) ==
    /\ hits = NoHits
    /\ sel = NoSel
    /\ ixCall = NoCall
    /\ idx' = IndexDoc(idx, id, text, tags)
    /\ ixCall' = IndexCall("Index", id, text, tags, idx)
    /\ hits' = NoHits
    /\ UNCHANGED <<db, storeAux, res, sel, hookIDCounter, hkCall, run, proc>>

RemoveIndexed(id) ==
    /\ hits = NoHits
    /\ ixCall = NoCall
    /\ idx' = RemoveDoc(idx, id)
    /\ ixCall' = IndexCall("Remove", id, <<>>, <<>>, idx)
    /\ hits' = NoHits
    /\ UNCHANGED <<db, storeAux, res, sel, hookIDCounter, hkCall, run, proc>>

Rebuild ==
    /\ hits = NoHits
    /\ ixCall = NoCall
    /\ idx' = RebuildIndex(idx)
    /\ ixCall' = IndexCall("Rebuild", "", <<>>, <<>>, idx)
    /\ hits' = NoHits
    /\ UNCHANGED <<db, storeAux, res, sel, hookIDCounter, hkCall, run, proc>>

\* The caller takes the return of the Index, Remove or Rebuild call.
IndexReturn ==
    /\ ixCall # NoCall
    /\ ixCall' = NoCall
    /\ UNCHANGED <<db, storeAux, res, idx, hits, sel, hookIDCounter, hkCall, run,
                       proc>>

\* A Search call runs to its return before the caller's next call.
SearchIndex(query, k) ==
    /\ hits = NoHits
    /\ ixCall = NoCall
    /\ \E order \in Orders(DOMAIN idx.docs) :
          hits' = [done |-> TRUE, query |-> query, k |-> k,
                   out |-> Search(idx, query, k, order)]
    /\ UNCHANGED <<db, storeAux, res, idx, sel, hookIDCounter, ixCall, hkCall, run,
                       proc>>

\* The caller takes the result of the Search call.
SearchReturn ==
    /\ hits # NoHits
    /\ hits' = NoHits
    /\ UNCHANGED <<db, storeAux, res, idx, sel, hookIDCounter, ixCall, hkCall, run,
                       proc>>

NextIdx ==
    \/ \E id \in DocIds, d \in Documents : Index(id, d.text, d.tags)
    \/ \E id \in DocIds : RemoveIndexed(id)
    \/ Rebuild
    \/ IndexReturn
    \/ \E q \in Queries, k \in (-1)..MaxK : SearchIndex(q, k)
    \/ SearchReturn

SpecIdx == Init /\ [][NextIdx]_vars

IDs(results) == [i \in DOMAIN results |-> results[i].ID]

\* The document has a token of the query.
Shares(doc, toks) == \E t \in SeqRange(toks) : t \in DOMAIN doc.tf

\* The documents of an index that have a token of the query.
Matching(ix, toks) == {d \in DOMAIN ix.docs : Shares(ix.docs[d], toks)}

\* The ids Search can return for a query, whatever k and the order the
\* documents are ranged over in.
Returned(ix, q, orders) ==
    UNION {SeqRange(IDs(Search(ix, q, k, order))) :
              k \in 1..MaxDocs, order \in orders}

\* BM25Index calls as their steps under idx.mu: a goroutine holds the write
\* lock from its Lock() to the return of Index, Remove or Rebuild, and the
\* read lock from its RLock() to the return of Search.
HoldsLock(g) ==
    proc[g].op \in {"Index", "RemoveDoc", "Rebuild"} /\ proc[g].pc # "lock"
HoldsRLock(g) == proc[g].op = "Search" /\ proc[g].pc # "rlock"

\* A Lock() that does not wait.
CanLockAlways(g) == TRUE

\* idx.mu.Lock() returns: no other goroutine holds the lock in either mode.
CanLock(g) == \A h \in Goroutines \ {g} : ~HoldsLock(h) /\ ~HoldsRLock(h)

\* idx.mu.RLock() returns: no goroutine holds the write lock.
CanRLock(g) == \A h \in Goroutines \ {g} : ~HoldsLock(h)

\* The frame of the steps of a BM25Index call.
IndexFrame ==
    UNCHANGED <<db, storeAux, res, hits, sel, hookIDCounter, ixCall, hkCall, run>>

\* Index(id, text, tags) up to idx.mu.Lock(): the document is built.
LockedIndexBegin(g, id, text, tags) ==
    /\ proc[g] = Idle
    /\ proc' = [proc EXCEPT ![g] =
                  [op |-> "Index", pc |-> "lock", id |-> id,
                   doc |-> bm25Doc(id, tokenize(Combined(text, tags)))]]
    /\ idx' = idx
    /\ IndexFrame

LockedRemoveBegin(g, id) ==
    /\ proc[g] = Idle
    /\ proc' = [proc EXCEPT ![g] = [op |-> "RemoveDoc", pc |-> "lock", id |-> id]]
    /\ idx' = idx
    /\ IndexFrame

LockedRebuildBegin(g) ==
    /\ proc[g] = Idle
    /\ proc' = [proc EXCEPT ![g] = [op |-> "Rebuild", pc |-> "lock"]]
    /\ idx' = idx
    /\ IndexFrame

\* idx.mu.Lock()
Lock(g) ==
    /\ proc[g].op \in {"Index", "RemoveDoc", "Rebuild"}
    /\ proc[g].pc = "lock"
    /\ CanLock(g)
    /\ proc' = [proc EXCEPT ![g].pc = "w1"]
    /\ idx' = idx
    /\ IndexFrame

\* The writes of Index, one per step: the old document's df entries, the
\* document, the new df entries, avgLen; the deferred Unlock and the return.
LockedIndexStep(g) ==
    LET id == proc[g].id
        doc == proc[g].doc
    IN  /\ proc[g].op = "Index"
        /\ CASE proc[g].pc = "w1" ->
                  /\ idx' = [idx EXCEPT !.df = IF id \in DOMAIN idx.docs
                                               THEN DropOld(@, idx.docs[id])
                                               ELSE @]
                  /\ proc' = [proc EXCEPT ![g].pc = "w2"]
             [] proc[g].pc = "w2" ->
                  /\ idx' = [idx EXCEPT !.docs = MapPut(@, id, doc)]
                  /\ proc' = [proc EXCEPT ![g].pc = "w3"]
             [] proc[g].pc = "w3" ->
                  /\ idx' = [idx EXCEPT !.df = DfIncrement(@, DOMAIN doc.tf)]
                  /\ proc' = [proc EXCEPT ![g].pc = "w4"]
             [] proc[g].pc = "w4" ->
                  /\ idx' = [idx EXCEPT !.avgLen = recomputeAvgLen(idx.docs)]
                  /\ proc' = [proc EXCEPT ![g] = CallReturn("Index", id, "")]
             [] OTHER -> FALSE
        /\ IndexFrame

\* The writes of Remove: nothing for an id that is not indexed; else the df
\* entries, the document, avgLen.
LockedRemoveStep(g) ==
    LET id == proc[g].id
    IN  /\ proc[g].op = "RemoveDoc"
        /\ CASE proc[g].pc = "w1" /\ id \notin DOMAIN idx.docs ->
                  /\ idx' = idx
                  /\ proc' = [proc EXCEPT ![g] = CallReturn("RemoveDoc", id, "")]
             [] proc[g].pc = "w1" /\ id \in DOMAIN idx.docs ->
                  /\ idx' = [idx EXCEPT !.df = DropOld(@, idx.docs[id])]
                  /\ proc' = [proc EXCEPT ![g].pc = "w2"]
             [] proc[g].pc = "w2" ->
                  /\ idx' = [idx EXCEPT !.docs = MapDel(@, id)]
                  /\ proc' = [proc EXCEPT ![g].pc = "w3"]
             [] proc[g].pc = "w3" ->
                  /\ idx' = [idx EXCEPT !.avgLen = recomputeAvgLen(idx.docs)]
                  /\ proc' = [proc EXCEPT ![g] = CallReturn("RemoveDoc", id, "")]
             [] OTHER -> FALSE
        /\ IndexFrame

\* The writes of Rebuild: df, then avgLen.
LockedRebuildStep(g) ==
    /\ proc[g].op = "Rebuild"
    /\ CASE proc[g].pc = "w1" ->
              /\ idx' = [idx EXCEPT !.df = DfRebuild(idx.docs, DOMAIN idx.docs,
                                                     EmptyMap)]
              /\ proc' = [proc EXCEPT ![g].pc = "w2"]
         [] proc[g].pc = "w2" ->
              /\ idx' = [idx EXCEPT !.avgLen = recomputeAvgLen(idx.docs)]
              /\ proc' = [proc EXCEPT ![g] = CallReturn("Rebuild", "", "")]
         [] OTHER -> FALSE
    /\ IndexFrame

\* Search(query, k) up to idx.mu.RLock(), for a query with tokens and k > 0.
LockedSearchBegin(g, query) ==
    /\ proc[g] = Idle
    /\ proc' = [proc EXCEPT ![g] = [op |-> "Search", pc |-> "rlock",
                                    query |-> query]]
    /\ idx' = idx
    /\ IndexFrame

\* idx.mu.RLock()
RLock(g) ==
    /\ proc[g].op = "Search"
    /\ proc[g].pc = "rlock"
    /\ CanRLock(g)
    /\ proc' = [proc EXCEPT ![g].pc = "r1"]
    /\ idx' = idx
    /\ IndexFrame

\* The reads of Search: the documents and df while scoring starts, avgLen
\* later in the loop; the deferred RUnlock and the return with the results
\* computed from what was read.
LockedSearchStep(g) ==
    /\ proc[g].op = "Search"
    /\ CASE proc[g].pc = "r1" ->
              proc' = [proc EXCEPT ![g] =
                         [op |-> "Search", pc |-> "r2", query |-> proc[g].query,
                          docs |-> idx.docs, df |-> idx.df]]
         [] proc[g].pc = "r2" ->
              LET read == [docs |-> proc[g].docs, df |-> proc[g].df,
                           avgLen |-> idx.avgLen]
              IN  \E order \in Orders(DOMAIN read.docs) :
                     proc' = [proc EXCEPT ![g] =
                                [op |-> "done", call |-> "Search", err |-> "",
                                 read |-> read,
                                 out |-> Search(read, proc[g].query, MaxK, order)]]
         [] OTHER -> FALSE
    /\ idx' = idx
    /\ IndexFrame

\* The caller takes the return of a BM25Index call.
LockedReturn(g) ==
    /\ proc[g].op = "done"
    /\ proc' = [proc EXCEPT ![g] = Idle]
    /\ idx' = idx
    /\ IndexFrame

\* The documents the goroutines index.
LockedDocuments ==
    {[text |-> <<"a">>, tags |-> <<>>], [text |-> <<"a", " ", "B">>, tags |-> <<>>]}

NextLock ==
    \E g \in Goroutines :
        \/ \E id \in {"A", "B"}, d \in LockedDocuments :
              LockedIndexBegin(g, id, d.text, d.tags)
        \/ \E id \in {"A", "B"} : LockedRemoveBegin(g, id)
        \/ LockedRebuildBegin(g)
        \/ Lock(g)
        \/ LockedIndexStep(g)
        \/ LockedRemoveStep(g)
        \/ LockedRebuildStep(g)
        \/ \E q \in {<<"a">>, <<"b">>} : LockedSearchBegin(g, q)
        \/ RLock(g)
        \/ LockedSearchStep(g)
        \/ LockedReturn(g)

SpecLock == Init /\ [][NextLock]_vars

\* C36: lock discipline of the BM25Index. At most one goroutine is inside
\* Index, Remove or Rebuild, and none is inside Search meanwhile; the index
\* a Search read (documents, document frequencies, average length) is one
\* whose statistics are those of its documents, the state after completed
\* mutations; and while no goroutine mutates, the index itself is such a
\* state.
C36_LockDiscipline ==
    /\ \A g, h \in Goroutines :
          (g # h /\ HoldsLock(g)) => (~HoldsLock(h) /\ ~HoldsRLock(h))
    /\ \A g \in Goroutines :
          (proc[g].op = "done" /\ proc[g].call = "Search") =>
             /\ RebuildIndex(proc[g].read) = proc[g].read
             /\ \E order \in Orders(DOMAIN proc[g].read.docs) :
                   proc[g].out = Search(proc[g].read, <<"a">>, MaxK, order)
                   \/ proc[g].out = Search(proc[g].read, <<"b">>, MaxK, order)
    /\ (\A g \in Goroutines : ~HoldsLock(g)) => RebuildIndex(idx) = idx

\* Witness for C36: both goroutines are inside Search at the same time, on
\* an index of two documents, while neither has returned.
C36_Witness ==
    /\ HoldsRLock("g1") /\ HoldsRLock("g2")
    /\ proc["g1"].pc = "r2" /\ proc["g2"].pc = "r1"
    /\ Cardinality(DOMAIN idx.docs) = 2

\* The documents of an index whose term table has the term.
Containing(ix, term) == {d \in DOMAIN ix.docs : term \in DOMAIN ix.docs[d].tf}

\* C32: the statistics kept by Index and Remove are the ones a rebuild
\* computes: df maps each term to the number of documents whose term table
\* has it, with no entry for a term of no document; avgLen is the total
\* token count over the number of documents (0 without documents). Hence
\* Rebuild() changes nothing in the index, and so no Search result.
C32_StatsEqualRebuild ==
    /\ DOMAIN idx.df = UNION {DOMAIN idx.docs[d].tf : d \in DOMAIN idx.docs}
    /\ \A t \in DOMAIN idx.df : idx.df[t] = Cardinality(Containing(idx, t))
    /\ idx.avgLen.num * Cardinality(DOMAIN idx.docs) =
          idx.avgLen.den * SumLengths(idx.docs, DOMAIN idx.docs)
    /\ DOMAIN idx.docs = {} => idx.avgLen.num = 0
    /\ RebuildIndex(idx) = idx
    /\ (ixCall.done /\ ixCall.op = "Rebuild") => idx = ixCall.before

\* Witness for C32: Rebuild is called on an index that holds two documents
\* sharing a term, one of them with a term of its own, and an average
\* length that is not a whole number.
C32_Witness ==
    /\ ixCall.done /\ ixCall.op = "Rebuild"
    /\ Cardinality(DOMAIN idx.docs) = 2
    /\ \E t \in DOMAIN idx.df : idx.df[t] = 2
    /\ \E t \in DOMAIN idx.df : idx.df[t] = 1
    /\ idx.avgLen.den = 2

\* C15: re-indexing is a replace. After Index(id, text2, tags2) on an id
\* that was indexed, the index (documents, document frequencies, average
\* length) is the one that Remove(id) followed by Index(id, text2, tags2)
\* gives, and a query made only of terms of the old text that the new one
\* lacks does not return id.
C15_ReindexIsReplace ==
    (ixCall.done /\ ixCall.op = "Index"
                 /\ ixCall.id \in DOMAIN ixCall.before.docs) =>
        /\ idx = IndexDoc(RemoveDoc(ixCall.before, ixCall.id),
                          ixCall.id, ixCall.text, ixCall.tags)
        /\ \A q \in Queries :
              (/\ tokenize(q) # <<>>
               /\ \A t \in SeqRange(tokenize(q)) :
                     /\ t \in DOMAIN ixCall.before.docs[ixCall.id].tf
                     /\ t \notin DOMAIN idx.docs[ixCall.id].tf)
              => ixCall.id \notin Returned(idx, q, Orders(DOMAIN idx.docs))

\* Index("A", ...) returned on an index where A had the term a and now has
\* only b, next to a document that has a.
C15_Witness ==
    /\ ixCall.done
    /\ ixCall.op = "Index"
    /\ ixCall.id = "A"
    /\ "A" \in DOMAIN ixCall.before.docs
    /\ DOMAIN ixCall.before.docs["A"].tf = {<<"a">>}
    /\ DOMAIN idx.docs["A"].tf = {<<"b">>}
    /\ "B" \in DOMAIN idx.docs
    /\ <<"a">> \in DOMAIN idx.docs["B"].tf
    /\ idx.df[<<"a">>] = 1

\* C16: removal. After Remove(id) no Search returns id; a query whose terms
\* occurred only in the removed document returns nothing; a document that
\* is left and shares a term with the query is still returned (k not below
\* the number of documents); Remove of an id that is not indexed returns no
\* error and leaves the index as it was.
C16_Removal ==
    (ixCall.done /\ ixCall.op = "Remove") =>
        LET orders == Orders(DOMAIN idx.docs)
        IN  /\ ixCall.err = ""
            /\ ixCall.id \notin DOMAIN ixCall.before.docs => idx = ixCall.before
            /\ \A q \in Queries :
                  /\ ixCall.id \notin Returned(idx, q, orders)
                  /\ (/\ ixCall.id \in DOMAIN ixCall.before.docs
                      /\ tokenize(q) # <<>>
                      /\ \A t \in SeqRange(tokenize(q)) :
                            /\ t \in DOMAIN ixCall.before.docs[ixCall.id].tf
                            /\ \A d \in DOMAIN idx.docs :
                                  t \notin DOMAIN idx.docs[d].tf)
                     => Returned(idx, q, orders) = {}
                  /\ \A order \in orders :
                        Matching(idx, tokenize(q))
                            \subseteq SeqRange(IDs(Search(idx, q, MaxDocs, order)))

\* Remove("A") returned: A had the terms a and b, b in no other document,
\* and B, which has a, is left.
C16_Witness ==
    /\ ixCall.done
    /\ ixCall.op = "Remove"
    /\ ixCall.id = "A"
    /\ "A" \in DOMAIN ixCall.before.docs
    /\ DOMAIN ixCall.before.docs["A"].tf = {<<"a">>, <<"b">>}
    /\ DOMAIN idx.docs = {"B"}
    /\ DOMAIN idx.docs["B"].tf = {<<"a">>}

\* C17: result bound and order. Search returns at most k results, in
\* non-increasing order of score, no id twice, and nothing when the query
\* has no token, when k <= 0, or when the index is empty.
C17_BoundAndOrder ==
    hits.done =>
        /\ hits.k > 0 => Len(hits.out) <= hits.k
        /\ \A i \in DOMAIN hits.out, j \in DOMAIN hits.out :
              i < j => hits.out[i].Score >= hits.out[j].Score
        /\ NoDup(IDs(hits.out))
        /\ (tokenize(hits.query) = <<>> \/ hits.k <= 0 \/ DOMAIN idx.docs = {})
              => hits.out = <<>>

\* Search with k = 2 returned two of three matching documents, of
\* different scores.
C17_Witness ==
    /\ hits.done
    /\ hits.k = 2
    /\ Cardinality(Matching(idx, tokenize(hits.query))) = 3
    /\ Len(hits.out) = 2
    /\ hits.out[1].Score > hits.out[2].Score

\* C18: membership. A document that shares no token with the query is
\* never in the result, and when k is at least the number of documents
\* that share a token with the query (from text or tags), every one of
\* them is in the result.
C18_Membership ==
    hits.done =>
        /\ SeqRange(IDs(hits.out)) \subseteq Matching(idx, tokenize(hits.query))
        /\ hits.k >= Cardinality(Matching(idx, tokenize(hits.query)))
              => SeqRange(IDs(hits.out)) = Matching(idx, tokenize(hits.query))

\* Search("A b", 2) returned two documents, one matching by the term b
\* alone, while a third document has no token of the query.
C18_Witness ==
    /\ hits.done
    /\ hits.query = <<"A", " ", "b">>
    /\ hits.k = 2
    /\ Cardinality(DOMAIN idx.docs) = 3
    /\ Len(hits.out) = 2
    /\ \E d \in DOMAIN idx.docs : idx.docs[d].length = 0
    /\ \E d \in SeqRange(IDs(hits.out)) : DOMAIN idx.docs[d].tf = {<<"b">>}

\* The place of an id in a result list, 0 when it is not there.
Place(out, id) ==
    IF \E i \in DOMAIN out : out[i].ID = id
    THEN CHOOSE i \in DOMAIN out : out[i].ID = id ELSE 0

\* Two documents of equal token count, d2 with the term twice and d1 once.
TwiceAndOnce(ix, d2, d1, term) ==
    /\ d2 \in DOMAIN ix.docs /\ d1 \in DOMAIN ix.docs
    /\ ix.docs[d2].length = ix.docs[d1].length
    /\ term \in DOMAIN ix.docs[d2].tf /\ ix.docs[d2].tf[term] = 2
    /\ term \in DOMAIN ix.docs[d1].tf /\ ix.docs[d1].tf[term] = 1

\* Both are returned, the document with two occurrences first and with a
\* greater score.
RankedBefore(out, d2, d1) ==
    /\ Place(out, d2) > 0
    /\ Place(out, d1) > 0
    /\ Place(out, d2) < Place(out, d1)
    /\ out[Place(out, d2)].Score > out[Place(out, d1)].Score

\* C19 as stated: for two indexed documents of equal token count, one with
\* the term T twice and one with T once, Search("T", k >= 2) returns both,
\* the first before the second and with a strictly greater score.
C19_TfMonotoneAnyK ==
    (hits.done /\ Len(tokenize(hits.query)) = 1 /\ hits.k >= 2) =>
        \A d2 \in DocIds, d1 \in DocIds :
            TwiceAndOnce(idx, d2, d1, tokenize(hits.query)[1])
                => RankedBefore(hits.out, d2, d1)

\* C19: the same for k at least the number of indexed documents that
\* contain T.
C19_TfMonotone ==
    (hits.done /\ Len(tokenize(hits.query)) = 1 /\ hits.k >= 2
               /\ hits.k >= Cardinality(Matching(idx, tokenize(hits.query)))) =>
        \A d2 \in DocIds, d1 \in DocIds :
            TwiceAndOnce(idx, d2, d1, tokenize(hits.query)[1])
                => RankedBefore(hits.out, d2, d1)

\* Search("a", 2) returned on three documents: A with a twice, B with a
\* once and of the same length, C without a.
C19_Witness ==
    /\ hits.done
    /\ hits.query = <<"a">>
    /\ hits.k = 2
    /\ DOMAIN idx.docs = {"A", "B", "C"}
    /\ TwiceAndOnce(idx, "A", "B", <<"a">>)
    /\ <<"a">> \notin DOMAIN idx.docs["C"].tf
    /\ IDs(hits.out) = <<"A", "B">>

-----------------------------------------------------------------------------
(* ContextBuilder: SelectTools (context.go)                                *)

MaxMaxTools == 2
DefaultMaxTools == 20
SearchFanout == 10

\* NewContextBuilder(store, opts...): the store is the model's db; index
\* tells whether WithIndex gave the builder an index.
NewContextBuilder(index, maxTools) == [index |-> index, maxTools |-> maxTools]

\* The builders of the model: with and without an index, maxTools left at
\* its default or set by WithMaxTools.
Builders ==
    {NewContextBuilder(ix, n) :
        ix \in BOOLEAN, n \in (0..MaxMaxTools) \cup {DefaultMaxTools}}

\* allToolDefs, and the fallback at the head of SelectTools: the
\* definitions of ListTools, in its order.
allToolDefs(root) ==
    LET tools == ListTools(root)
    IN  [i \in DOMAIN tools |-> DefOf(tools[i])]

RECURSIVE Pow2(_)
Pow2(n) == IF n = 0 THEN 1 ELSE 2 * Pow2(n - 1)

\* The deepest a resolveSkillTools recursion gets: visited holds a new name
\* at every level.
DepthCap == Cardinality(SkillNames)

\* baseScore * depthFactor with depthFactor = 0.5^depth, in units of
\* 2^-DepthCap millionths, so that the product is an integer.
DecayedScore(baseScore, depth) == baseScore * Pow2(DepthCap - depth)

\* An upper bound on the calls of resolveSkillTools for one search result.
SelectFuel == Cardinality(SkillNames) * (MaxDeps + 1) + 1

RECURSIVE CollectTools(_, _, _, _)
\* for _, def := range skill.Tools: the definition is put in toolSet, the
\* score kept in toolScores when greater than the one there (0 if none).
CollectTools(st, tools, i, score) ==
    IF i > Len(tools) THEN st
    ELSE LET def == tools[i]
             old == IF def.Name \in DOMAIN st.toolScores
                    THEN st.toolScores[def.Name] ELSE 0
         IN  CollectTools(
                [st EXCEPT !.toolSet = MapPut(@, def.Name, def),
                           !.toolScores = IF score > old
                                          THEN MapPut(@, def.Name, score)
                                          ELSE @],
                tools, i + 1, score)

RECURSIVE resolveSkillTools(_, _, _, _, _)
RECURSIVE resolveSkillDeps(_, _, _, _, _, _)

\* A resolveSkillTools without the visited map.
resolveSkillToolsUnvisited(root, skillID, baseScore, depth, st) ==
    IF st.calls >= SelectFuel \/ depth > DepthCap
    THEN [st EXCEPT !.diverged = TRUE]
    ELSE
    LET st1 == [st EXCEPT !.calls = @ + 1,
                          !.expanded = Append(@, <<st.result, skillID>>)]
        skill == GetSkill(root, skillID)
    IN  IF skill = NilObj THEN st1
        ELSE resolveSkillDeps(
                root, skill.Dependencies, 1, baseScore, depth + 1,
                CollectTools(st1, skill.Tools, 1,
                             DecayedScore(baseScore, depth)))

\* resolveSkillTools(skillID, baseScore, depthFactor, visited, toolSet,
\* toolScores): st holds the three maps, the number of calls made, and the
\* bundles looked up so far, each with the search result it was looked up
\* for.
resolveSkillTools(root, skillID, baseScore, depth, st) ==
    IF st.calls >= SelectFuel \/ depth > DepthCap
    THEN [st EXCEPT !.diverged = TRUE]
    ELSE
    LET st0 == [st EXCEPT !.calls = @ + 1]
    IN  IF skillID \in st0.visited THEN st0
        ELSE
        LET st1 == [st0 EXCEPT !.visited = @ \cup {skillID},
                               !.expanded = Append(@, <<st0.result, skillID>>)]
            skill == GetSkill(root, skillID)
        IN  IF skill = NilObj THEN st1
            ELSE resolveSkillDeps(
                    root, skill.Dependencies, 1, baseScore, depth + 1,
                    CollectTools(st1, skill.Tools, 1,
                                 DecayedScore(baseScore, depth)))

\* A resolveSkillTools that does not recurse into the dependencies.
resolveSkillDepsNone(root, deps, i, baseScore, depth, st) == st

\* for _, dep := range skill.Dependencies
resolveSkillDeps(root, deps, i, baseScore, depth, st) ==
    IF i > Len(deps) \/ st.diverged THEN st
    ELSE resolveSkillDeps(root, deps, i + 1, baseScore, depth,
                          resolveSkillTools(root, deps[i], baseScore, depth, st))

RECURSIVE MergeResults(_, _, _, _)
\* for _, sr := range skillResults: every result is resolved with a fresh
\* visited map into the same toolSet and toolScores.
MergeResults(root, skillResults, i, st) ==
    IF i > Len(skillResults) \/ st.diverged THEN st
    ELSE MergeResults(
            root, skillResults, i + 1,
            resolveSkillTools(root, skillResults[i].ID, skillResults[i].Score,
                              0, [st EXCEPT !.visited = {}, !.calls = 0,
                                            !.result = i]))

\* A SelectTools that has no fallback for a search without results.
NoMatchesIgnored(skillResults) == FALSE

\* len(skillResults) == 0
NoMatches(skillResults) == Len(skillResults) = 0

\* A truncation test that is off by one.
TooManyOffByOne(defs, maxTools) == Len(defs) > maxTools + 1

\* len(defs) > cb.maxTools
TooMany(defs, maxTools) == Len(defs) > maxTools

\* The steps of SelectTools up to the merged maps. path is "all" when the
\* whole catalog is returned, "index" otherwise.
SelectMerge(cb, root, ix, query, searchOrder) ==
    LET none == [path |-> "all", results |-> <<>>, toolSet |-> EmptyMap,
                 toolScores |-> EmptyMap, diverged |-> FALSE,
                 expanded |-> <<>>]
    IN  IF ~cb.index \/ Len(query) = 0 THEN none
        ELSE
        LET skillResults == Search(ix, query, SearchFanout, searchOrder)
        IN  IF NoMatches(skillResults)
            THEN [none EXCEPT !.results = skillResults]
            ELSE
            LET st == MergeResults(root, skillResults, 1,
                                   [visited |-> {}, toolSet |-> EmptyMap,
                                    toolScores |-> EmptyMap, calls |-> 0,
                                    diverged |-> FALSE, result |-> 0,
                                    expanded |-> <<>>])
            IN  [path |-> "index", results |-> skillResults,
                 toolSet |-> st.toolSet, toolScores |-> st.toolScores,
                 diverged |-> st.diverged, expanded |-> st.expanded]

\* The rest of SelectTools: defs is filled by ranging over toolSet in
\* defsOrder; beyond maxTools the list is sorted by score and cut, and a
\* negative maxTools makes the slice expression panic.
SelectFinish(cb, root, merged, defsOrder) ==
    IF merged.path = "all"
    THEN [out |-> allToolDefs(root), panicked |-> FALSE]
    ELSE
    LET defs == [i \in DOMAIN defsOrder |->
                    [def |-> merged.toolSet[defsOrder[i]],
                     Score |-> merged.toolScores[defsOrder[i]]]]
    IN  IF TooMany(defs, cb.maxTools)
        THEN IF cb.maxTools < 0
             THEN [out |-> <<>>, panicked |-> TRUE]
             ELSE LET sorted == InsertionSort(defs, 2)
                  IN  [out |-> [i \in 1..cb.maxTools |-> sorted[i].def],
                       panicked |-> FALSE]
        ELSE [out |-> [i \in DOMAIN defs |-> defs[i].def],
              panicked |-> FALSE]

\* ToolRegistry.Register(def, handler): a tool with Source "native".
RegisterNative(def) ==
    /\ sel = NoSel
    /\ ixCall = NoCall
    /\ db' = RegisterWithSource(db, def, "native", <<>>)
    /\ UNCHANGED <<storeAux, res, idx, hits, sel, hookIDCounter, ixCall, hkCall, run,
                       proc>>

\* NewContextBuilder(store, opts...).SelectTools(ctx, query): the call runs
\* to its return before the caller's next call.
SelectTools(cb, query) ==
    /\ sel = NoSel
    /\ ixCall = NoCall
    /\ \E searchOrder \in Orders(DOMAIN idx.docs) :
          LET merged == SelectMerge(cb, db, idx, query, searchOrder)
          IN  \E defsOrder \in Orders(DOMAIN merged.toolSet) :
                 LET fin == SelectFinish(cb, db, merged, defsOrder)
                 IN  sel' = [done |-> TRUE, cb |-> cb, query |-> query,
                             path |-> merged.path,
                             results |-> merged.results,
                             toolSet |-> merged.toolSet,
                             toolScores |-> merged.toolScores,
                             out |-> fin.out, panicked |-> fin.panicked,
                             diverged |-> merged.diverged,
                             expanded |-> merged.expanded]
    /\ UNCHANGED <<db, storeAux, res, idx, hits, hookIDCounter, ixCall, hkCall, run,
                       proc>>

\* The caller takes the list SelectTools returned.
SelectReturn ==
    /\ sel # NoSel
    /\ sel' = NoSel
    /\ UNCHANGED <<db, storeAux, res, idx, hits, hookIDCounter, ixCall, hkCall, run,
                       proc>>

\* The bundles that are indexed (the third is reached as a dependency
\* only), the texts they are indexed with, and the queries of SelectTools.
IndexedSkills == {"A", "B"}
SkillTexts == {<<"a">>, <<"a", " ", "a">>}
SelectQueries == {<<>>, <<"a">>, <<"-">>}

NativeTool == ToolDefinition("t0", "d0")

NextSel ==
    \/ \E n \in SkillNames :
          \E deps \in DepLists(n) : Register(Skill(n, deps), {OwnTool(n)})
    \/ RegisterNative(NativeTool)
    \/ \E id \in IndexedSkills, text \in SkillTexts : Index(id, text, <<>>)
    \/ IndexReturn
    \/ \E cb \in Builders, q \in SelectQueries : SelectTools(cb, q)
    \/ SelectReturn

SpecSel == Init /\ [][NextSel]_vars

\* The same callers with builders that have an index and a maxTools given
\* by WithMaxTools, negative values included.
NextMax ==
    \/ \E n \in SkillNames :
          \E deps \in DepLists(n) : Register(Skill(n, deps), {OwnTool(n)})
    \/ \E id \in IndexedSkills, text \in SkillTexts : Index(id, text, <<>>)
    \/ IndexReturn
    \/ \E n \in (-1)..MaxMaxTools, q \in SelectQueries :
          SelectTools(NewContextBuilder(TRUE, n), q)
    \/ SelectReturn

SpecMax == Init /\ [][NextMax]_vars

\* Every bundle of the sequence is registered and indexed.
AllIn(names) ==
    \A i \in DOMAIN names :
        GetSkill(db, names[i]) # NilObj /\ names[i] \in DOMAIN idx.docs

\* A caller that registers and indexes the bundles A, B and C, then the
\* bundles of FillerNames one after the other, each indexed with the text
\* "a", and selects with the query "a" before the first and after the last
\* of them.
NextFan ==
    \/ /\ GetSkill(db, FillerNames[1]) = NilObj
       /\ \/ \E deps \in {<<>>, <<"C">>} : Register(Skill("A", deps), {OwnTool("A")})
          \/ \E n \in {"B", "C"} : Register(Skill(n, <<>>), {OwnTool(n)})
          \/ \E id \in SkillNames, text \in {<<"a">>, <<"B">>} : Index(id, text, <<>>)
    \/ \E i \in DOMAIN FillerNames :
          /\ AllIn(<<"A", "B", "C">>)
          /\ AllIn(SubSeq(FillerNames, 1, i - 1))
          /\ GetSkill(db, FillerNames[i]) = NilObj
          /\ Register(Skill(FillerNames[i], <<>>), {OwnTool(FillerNames[i])})
    \/ \E i \in DOMAIN FillerNames :
          /\ GetSkill(db, FillerNames[i]) # NilObj
          /\ FillerNames[i] \notin DOMAIN idx.docs
          /\ Index(FillerNames[i], <<"a">>, <<>>)
    \/ IndexReturn
    \/ /\ GetSkill(db, FillerNames[1]) = NilObj \/ AllIn(FillerNames)
       /\ \E n \in {MaxMaxTools, DefaultMaxTools} :
             SelectTools(NewContextBuilder(TRUE, n), <<"a">>)
    \/ SelectReturn

SpecFan == Init /\ [][NextFan]_vars

\* storedToSkill: the Skill of a StoredSkill (the record without its tools).
storedToSkill(stored) ==
    [Name |-> stored.Name, Tags |-> stored.Tags, Category |-> stored.Category,
     Dependencies |-> stored.Dependencies]

RECURSIVE FoundSkills(_, _, _)
\* SelectSkills' loop over the search results: a result whose skill is not
\* in the Store is skipped.
FoundSkills(root, results, i) ==
    IF i > Len(results) THEN <<>>
    ELSE LET stored == GetSkill(root, results[i].ID)
         IN  (IF stored = NilObj THEN <<>> ELSE <<storedToSkill(stored)>>)
             \o FoundSkills(root, results, i + 1)

\* A SelectSkills that returns every skill of the Store, index or not.
SelectSkillsAll(cb, root, ix, query, k, searchOrder) ==
    LET skills == ListSkills(root)
    IN  [i \in DOMAIN skills |-> storedToSkill(skills[i])]

\* ContextBuilder.SelectSkills(ctx, query, k), the index ranged over in
\* searchOrder.
SelectSkillsOut(cb, root, ix, query, k, searchOrder) ==
    IF ~cb.index \/ Len(query) = 0
    THEN LET skills == ListSkills(root)
         IN  [i \in DOMAIN skills |-> storedToSkill(skills[i])]
    ELSE FoundSkills(root, Search(ix, query, k, searchOrder), 1)

\* The call runs to its return before the caller's next call.
SelectSkills(cb, query, k) ==
    /\ sel = NoSel
    /\ ixCall = NoCall
    /\ \E searchOrder \in Orders(DOMAIN idx.docs) :
          sel' = [done |-> TRUE, cb |-> cb, query |-> query, k |-> k,
                  out |-> SelectSkillsOut(cb, db, idx, query, k, searchOrder)]
    /\ UNCHANGED <<db, storeAux, res, idx, hits, hookIDCounter, ixCall, hkCall, run,
                       proc>>

\* The texts the bundles are indexed with for SelectSkills.
PreviewTexts == {<<"a">>, <<"a", " ", "a">>, <<"B">>}

\* Bundles registered (A and B alone or depending on C) and removed, bundle
\* names indexed, and SelectSkills.
NextSkills ==
    \/ \E n \in {"A", "B"}, deps \in {<<>>, <<"C">>} :
          Register(Skill(n, deps), {OwnTool(n)})
    \/ Register(Skill("C", <<>>), {OwnTool("C")})
    \/ \E n \in SkillNames : sel = NoSel /\ ixCall = NoCall /\ Remove(n)
    \/ \E id \in SkillNames, text \in PreviewTexts : Index(id, text, <<>>)
    \/ IndexReturn
    \/ \E ix \in BOOLEAN, q \in SelectQueries, k \in (-1)..MaxK :
          SelectSkills(NewContextBuilder(ix, DefaultMaxTools), q, k)
    \/ SelectReturn

SpecSkills == Init /\ [][NextSkills]_vars

\* The registries on one Store: bundles registered and removed, native
\* tools registered.
NextOwn ==
    \/ \E n \in SkillNames : \E ts \in ToolSets(n) : Register(Skill(n, <<>>), ts)
    \/ \E n \in SkillNames : Remove(n)
    \/ \E t \in {"t0", "t1", "t2", "t3"} : RegisterNative(ToolDefinition(t, "d0"))

SpecOwn == Init /\ [][NextOwn]_vars

-----------------------------------------------------------------------------
(* SkillRegistry calls made of their Store calls, one transaction each     *)

\* Register(skill, tools) up to and with sr.store.InsertSkill(stored).
RegisterInsertSkill(g, skill, toolNames) ==
    LET toolDefs == SortObjs({ToolDefinition(n, "d1") : n \in toolNames})
        stored == StoredSkill(skill.Name, skill.Tags, skill.Category, toolDefs,
                              skill.Dependencies)
    IN  /\ proc[g] = Idle
        /\ db' = InsertSkillRoot(db, stored)
        /\ proc' = [proc EXCEPT ![g] = [op |-> "Register", name |-> skill.Name,
                                        tags |-> skill.Tags, toolDefs |-> toolDefs,
                                        i |-> 1]]
        /\ UNCHANGED <<storeAux, res, idx, hits, sel, hookIDCounter, ixCall,
                       hkCall, run>>

\* Register's loop: one sr.store.InsertTool per step, then the return.
RegisterInsertTool(g) ==
    /\ proc[g].op = "Register"
    /\ IF proc[g].i <= Len(proc[g].toolDefs)
       THEN /\ db' = InsertToolRoot(
                        db, StoredToolOf(proc[g].toolDefs[proc[g].i],
                                         SkillSource(proc[g].name), proc[g].tags,
                                         "f1"))
            /\ proc' = [proc EXCEPT ![g].i = @ + 1]
       ELSE /\ db' = db
            /\ proc' = [proc EXCEPT ![g] = CallReturn("Register", proc[g].name, "")]
    /\ UNCHANGED <<storeAux, res, idx, hits, sel, hookIDCounter, ixCall,
                   hkCall, run>>

\* Remove(name) up to and with sr.store.ListToolsBySource(source).
RemoveList(g, name) ==
    /\ proc[g] = Idle
    /\ proc' = [proc EXCEPT ![g] =
                  [op |-> "Remove", name |-> name,
                   tools |-> ListToolsBySource(db, SkillSource(name)), i |-> 1]]
    /\ UNCHANGED <<db, storeAux, res, idx, hits, sel, hookIDCounter, ixCall,
                   hkCall, run>>

\* Remove's loop: one sr.store.DeleteTool per step, then
\* sr.store.DeleteSkill(name) and the return.
RemoveDelete(g) ==
    /\ proc[g].op = "Remove"
    /\ IF proc[g].i <= Len(proc[g].tools)
       THEN /\ db' = DeleteToolRoot(db, proc[g].tools[proc[g].i].Name)
            /\ proc' = [proc EXCEPT ![g].i = @ + 1]
       ELSE /\ db' = DeleteSkillRoot(db, proc[g].name)
            /\ proc' = [proc EXCEPT ![g] = CallReturn("Remove", proc[g].name, "")]
    /\ UNCHANGED <<storeAux, res, idx, hits, sel, hookIDCounter, ixCall,
                   hkCall, run>>

\* A Remove that ends before its DeleteSkill, with the error of a Store
\* call or with its goroutine: the tools deleted so far stay deleted.
RemoveEndsEarly(g) ==
    /\ proc[g].op = "Remove"
    /\ proc' = [proc EXCEPT ![g] =
                  [op |-> "done", call |-> "Remove", name |-> proc[g].name,
                   err |-> "ended early", deleted |-> proc[g].i - 1,
                   listed |-> Len(proc[g].tools)]]
    /\ UNCHANGED <<db, storeAux, res, idx, hits, sel, hookIDCounter, ixCall,
                   hkCall, run>>

\* The caller takes the return of a call.
TakeReturn(g) ==
    /\ proc[g].op = "done"
    /\ proc' = [proc EXCEPT ![g] = Idle]
    /\ UNCHANGED <<db, storeAux, res, idx, hits, sel, hookIDCounter, ixCall,
                   hkCall, run>>

RECURSIVE DeleteToolsErr(_, _, _)
\* The error Remove's loop ends with: that of the first DeleteTool that
\* fails.
DeleteToolsErr(root, tools, i) ==
    IF i > Len(tools) THEN ""
    ELSE IF DeleteToolErr(root, tools[i].Name) # ""
    THEN DeleteToolErr(root, tools[i].Name)
    ELSE DeleteToolsErr(DeleteToolRoot(root, tools[i].Name), tools, i + 1)

\* The error SkillRegistry.Remove(name) returns ("" for nil).
RemoveErr(root, name) ==
    LET tools == ListToolsBySource(root, SkillSource(name))
    IN  IF DeleteToolsErr(root, tools, 1) # "" THEN DeleteToolsErr(root, tools, 1)
        ELSE DeleteSkillErr(DeleteTools(root, tools, 1), name)

\* SkillRegistry.Remove(name) run to its return by a caller that keeps what
\* it returned, and whether the bundle was in the Store.
RemoveCall(g, name) ==
    /\ proc[g] = Idle
    /\ db' = RemoveRoot(db, name)
    /\ proc' = [proc EXCEPT ![g] =
                  [op |-> "done", call |-> "Remove", name |-> name,
                   err |-> RemoveErr(db, name),
                   found |-> GetSkill(db, name) # NilObj]]
    /\ UNCHANGED <<storeAux, res, idx, hits, sel, hookIDCounter, ixCall,
                   hkCall, run>>

\* No call of a goroutine is under way.
Quiet == \A g \in Goroutines : proc[g].op \in {"idle", "done"}

\* One caller: bundles are registered, a Remove may end early, and Remove
\* is called again.
NextResume ==
    \/ \E n \in {"A", "B"} : \E ts \in ToolSets(n) :
          (\A g \in Goroutines : proc[g] = Idle) /\ Register(Skill(n, <<>>), ts)
    \/ \E n \in {"A", "B"} : Quiet /\ RemoveList("g1", n)
    \/ RemoveDelete("g1")
    \/ RemoveEndsEarly("g1")
    \/ TakeReturn("g1")
    \/ \E n \in {"A", "B"} : Quiet /\ RemoveCall("g2", n)
    \/ TakeReturn("g2")

SpecResume == Init /\ [][NextResume]_vars

\* C35: Remove is resumable. Called in a state left by a Remove(name) that
\* ended before its DeleteSkill (some or all tools deleted, the record
\* present), or in a state without the bundle, Remove(name) returns no
\* error and ends with no bundle record and no tool with Source
\* "skill:" + name.
C35_RemoveResumable ==
    \A n \in {"A", "B"} :
        (/\ proc["g2"].op = "done" /\ proc["g2"].name = n
         /\ \/ ~proc["g2"].found
            \/ proc["g1"].op = "done" /\ proc["g1"].err # "" /\ proc["g1"].name = n)
        => /\ proc["g2"].err = ""
           /\ GetSkill(db, n) = NilObj
           /\ \A t \in SeqRange(ListTools(db)) : t.Source # SkillSource(n)

\* Witness for C35: a Remove of A ended after deleting one of A's two
\* tools, and the Remove called after it found the record and left neither
\* the record nor a tool of A.
C35_Witness ==
    /\ proc["g1"].op = "done" /\ proc["g1"].err # ""
    /\ proc["g1"].name = "A"
    /\ proc["g1"].listed = 2 /\ proc["g1"].deleted = 1
    /\ proc["g2"].op = "done" /\ proc["g2"].name = "A" /\ proc["g2"].found
    /\ proc["g2"].err = ""
    /\ GetSkill(db, "A") = NilObj
    /\ ListToolsBySource(db, SkillSource("A")) = <<>>

\* Two goroutines on one registry: one registers bundle A, the other
\* removes it.
NextRace ==
    \/ \E ts \in ToolSets("A") : RegisterInsertSkill("g1", Skill("A", <<>>), ts)
    \/ RegisterInsertTool("g1")
    \/ RemoveList("g2", "A")
    \/ RemoveDelete("g2")
    \/ \E g \in Goroutines : TakeReturn(g)

SpecRace == Init /\ [][NextRace]_vars

\* C38: once a Register(A, tools) and a Remove(A) have both returned, either
\* the bundle is in the Store with all the tools of its record, or neither
\* the record nor any tool with Source "skill:A" is.
C38_NoOrphans ==
    (/\ proc["g1"].op = "done" /\ proc["g1"].call = "Register"
     /\ proc["g2"].op = "done" /\ proc["g2"].call = "Remove") =>
        \/ /\ GetSkill(db, "A") # NilObj
           /\ \A def \in SeqRange(GetSkill(db, "A").Tools) :
                 /\ GetTool(db, def.Name) # NilObj
                 /\ GetTool(db, def.Name).Source = SkillSource("A")
        \/ /\ GetSkill(db, "A") = NilObj
           /\ ListToolsBySource(db, SkillSource("A")) = <<>>

-----------------------------------------------------------------------------
(* Properties of ContextBuilder.SelectSkills                               *)

\* The names of a list of skills.
SkillNamesOf(skills) == [i \in DOMAIN skills |-> skills[i].Name]

RECURSIVE InStore(_, _, _)
\* The ids of a list that name a bundle of the Store, in the list's order.
InStore(root, ids, i) ==
    IF i > Len(ids) THEN <<>>
    ELSE (IF GetSkill(root, ids[i]) = NilObj THEN <<>> ELSE <<ids[i]>>)
         \o InStore(root, ids, i + 1)

\* C24: SelectSkills is ranked search without expansion. With an index and
\* a non-empty query, SelectSkills(query, k) returns at most k bundles: the
\* bundles of index.Search(query, k) that exist in the Store, in the rank
\* order of Search, each as the Store holds it, and never a bundle that does
\* not match the query itself.
C24_SelectSkills ==
    (sel # NoSel /\ sel.cb.index /\ sel.query # <<>>) =>
        /\ sel.k >= 0 => Len(sel.out) <= sel.k
        /\ \E order \in Orders(DOMAIN idx.docs) :
              SkillNamesOf(sel.out)
                  = InStore(db, IDs(Search(idx, sel.query, sel.k, order)), 1)
        /\ \A i \in DOMAIN sel.out :
              /\ GetSkill(db, sel.out[i].Name) # NilObj
              /\ sel.out[i] = storedToSkill(GetSkill(db, sel.out[i].Name))
              /\ sel.out[i].Name \in Matching(idx, tokenize(sel.query))

\* SelectSkills("a", 2) returned A alone: A matches and depends on C, which
\* is registered and indexed under another term; B matches with the higher
\* score and is not in the Store.
C24_Witness ==
    /\ sel # NoSel
    /\ sel.cb.index
    /\ sel.query = <<"a">>
    /\ sel.k = 2
    /\ GetSkill(db, "A") # NilObj
    /\ GetSkill(db, "A").Dependencies = <<"C">>
    /\ GetSkill(db, "C") # NilObj
    /\ GetSkill(db, "B") = NilObj
    /\ DOMAIN idx.docs = {"A", "B", "C"}
    /\ DOMAIN idx.docs["C"].tf = {<<"b">>}
    /\ idx.docs["B"].length = 2
    /\ idx.docs["A"].length = 1
    /\ SkillNamesOf(sel.out) = <<"A">>

-----------------------------------------------------------------------------
(* Properties of BM25Index.Search                                          *)

\* C10: Search is deterministic: on the same index contents, the same query
\* and k give the same ranked list of ids, ties between equal scores
\* included, whatever order the documents are ranged over in.
C10_SearchDeterministic ==
    \A q \in Queries, k \in 0..MaxK :
        \A o1 \in Orders(DOMAIN idx.docs), o2 \in Orders(DOMAIN idx.docs) :
            IDs(Search(idx, q, k, o1)) = IDs(Search(idx, q, k, o2))

-----------------------------------------------------------------------------
(* Properties of ContextBuilder.SelectTools                                *)

\* The capability catalog of the Store: the definitions of its tools table.
Catalog(root) ==
    {DefOf(t) : t \in ObjsIn(root, "tools", "id")}

\* The call had an index and a non-empty query, and Search gave candidates.
IndexPath == sel.done /\ sel.cb.index /\ sel.query # <<>> /\ sel.results # <<>>

\* C6: fail open. Whenever the builder has no index, or the query is the
\* empty string, or Search returns no candidate, SelectTools returns the
\* whole catalog of the Store, each capability exactly once, whatever
\* maxTools is.
C6_FailOpen ==
    (sel.done /\ (~sel.cb.index \/ sel.query = <<>> \/ sel.results = <<>>)) =>
        /\ ~sel.panicked
        /\ SeqRange(sel.out) = Catalog(db)
        /\ NoDup(sel.out)

\* SelectTools returned for a builder with an index over documents, on a
\* non-empty query without candidates, with a catalog larger than maxTools.
C6_Witness ==
    /\ sel.done
    /\ sel.cb.index
    /\ sel.query = <<"-">>
    /\ DOMAIN idx.docs # {}
    /\ sel.cb.maxTools = 1
    /\ Len(sel.out) = 3

\* C7: bounded output. With at least one candidate and maxTools >= 0, the
\* list SelectTools returns has at most maxTools entries.
C7_BoundedOutput ==
    (IndexPath /\ sel.cb.maxTools >= 0) =>
        /\ ~sel.panicked
        /\ Len(sel.out) <= sel.cb.maxTools

\* SelectTools merged three capabilities and returned two under maxTools 2.
C7_Witness ==
    /\ IndexPath
    /\ Cardinality(DOMAIN sel.toolSet) = 3
    /\ sel.cb.maxTools = 2
    /\ Len(sel.out) = 2

\* C34: whatever the Store and the index hold (dependency cycles,
\* dependencies and candidates that name no bundle of the Store),
\* SelectTools returns: the recursion ends, no bundle is looked up twice
\* for one candidate, every candidate is looked up, and the merged set is
\* made of the capabilities of the looked-up bundles that the Store holds,
\* so that an absent bundle contributes nothing.
C34_SelectionTotal ==
    sel.done =>
        /\ ~sel.diverged
        /\ (sel.cb.maxTools >= 0) => ~sel.panicked
        /\ NoDup(sel.expanded)
        /\ \A i \in DOMAIN sel.results :
              <<i, sel.results[i].ID>> \in SeqRange(sel.expanded)
        /\ ~IndexPath => sel.expanded = <<>>
        /\ DOMAIN sel.toolSet =
              UNION {{def.Name : def \in BundleTools(db, e[2])} :
                       e \in {x \in SeqRange(sel.expanded) :
                                GetSkill(db, x[2]) # NilObj}}

\* Witness for C34: the candidates are A and B; B is not in the Store; A
\* depends on C, and C depends on A and on B. For the candidate A the
\* bundles A, C and B are looked up once each, for B only B.
C34_Witness ==
    /\ IndexPath
    /\ {sel.results[i].ID : i \in DOMAIN sel.results} = {"A", "B"}
    /\ GetSkill(db, "B") = NilObj
    /\ GetSkill(db, "A") # NilObj /\ GetSkill(db, "A").Dependencies = <<"C">>
    /\ GetSkill(db, "C") # NilObj
    /\ SeqRange(GetSkill(db, "C").Dependencies) = {"A", "B"}
    /\ Len(sel.expanded) = 4
    /\ DOMAIN sel.toolSet = {OwnTool("A"), OwnTool("C")}

\* The merged set of the call has more entries than maxTools.
Exceeds == IndexPath /\ Cardinality(DOMAIN sel.toolSet) > sel.cb.maxTools

\* The returned list has maxTools distinct entries of the merged set, and
\* no capability left out has a strictly higher score than a returned one.
KeepsBest ==
    LET names == {sel.out[i].Name : i \in DOMAIN sel.out}
    IN  /\ ~sel.panicked
        /\ Len(sel.out) = sel.cb.maxTools
        /\ NoDup(sel.out)
        /\ names \subseteq DOMAIN sel.toolSet
        /\ \A t \in DOMAIN sel.toolSet \ names, u \in names :
              ~(sel.toolScores[t] > sel.toolScores[u])

C39_SafeForEveryMaxTools ==
    sel.done =>
        /\ ~sel.panicked
        /\ (IndexPath /\ sel.cb.maxTools = 0) => sel.out = <<>>

\* The names of the capabilities of the bundles of the Store that lie in
\* the dependency closure of the named bundles.
ClosureTools(root, names) ==
    UNION {{def.Name : def \in BundleTools(root, b)} :
              b \in {c \in ReachFrom(root, names) : GetSkill(root, c) # NilObj}}

\* SelectTools took the index path and did not cut the merged set.
NotCut ==
    /\ IndexPath
    /\ ~sel.panicked
    /\ Cardinality(DOMAIN sel.toolSet) <= sel.cb.maxTools

\* C25 as stated: on the index path, when the merged set does not exceed
\* maxTools, SelectTools returns every capability of every bundle that
\* shares a token with the query and of every bundle in the dependency
\* closure of such a bundle, and no other capability.
C25_PrecisionAllMatching ==
    NotCut =>
        {def.Name : def \in SeqRange(sel.out)}
            = ClosureTools(db, Matching(idx, tokenize(sel.query)))

\* C25: the same for the candidates, the bundles among the results of
\* Search(query, 10): they share a token with the query, they are all the
\* bundles that do when these are at most ten, and SelectTools returns the
\* capabilities of the candidates and of their dependency closure, each
\* once, and no other capability.
C25_Precision ==
    NotCut =>
        /\ {def.Name : def \in SeqRange(sel.out)}
              = ClosureTools(db, SeqRange(IDs(sel.results)))
        /\ NoDup(sel.out)
        /\ SeqRange(IDs(sel.results)) \subseteq Matching(idx, tokenize(sel.query))
        /\ Cardinality(Matching(idx, tokenize(sel.query))) <= SearchFanout
              => SeqRange(IDs(sel.results)) = Matching(idx, tokenize(sel.query))

\* SelectTools("a") returned the tools of A, which matches, and of C, on
\* which A depends and which does not match, and not the tool of B, which
\* is registered and indexed under another term.
C25_Witness ==
    /\ NotCut
    /\ sel.query = <<"a">>
    /\ GetSkill(db, "A") # NilObj
    /\ GetSkill(db, "A").Dependencies = <<"C">>
    /\ GetSkill(db, "B") # NilObj
    /\ GetSkill(db, "C") # NilObj
    /\ Matching(idx, tokenize(sel.query)) = {"A"}
    /\ DOMAIN idx.docs = {"A", "B", "C"}
    /\ {def.Name : def \in SeqRange(sel.out)} = {"t1", "t3"}

RECURSIVE WalksFrom(_, _, _)
\* The names at the end of a walk of d dependency edges from a name of S.
WalksFrom(root, S, d) ==
    IF d = 0 THEN S
    ELSE UNION {SeqRange(GetSkill(root, n).Dependencies) :
                   n \in {m \in WalksFrom(root, S, d - 1) :
                             GetSkill(root, m) # NilObj}}

\* The bundle exists and its record has a capability of this name.
Owns(root, b, t) ==
    /\ GetSkill(root, b) # NilObj
    /\ \E def \in BundleTools(root, b) : def.Name = t

\* S * 0.5^d for every candidate of the call with score S and every
\* dependency path of d edges from it to a bundle owning t.
PathScores(root, results, t) ==
    {DecayedScore(results[i].Score, d) :
        <<i, d>> \in {p \in (DOMAIN results) \X (0..DepthCap - 1) :
                         \E b \in WalksFrom(root, {results[p[1]].ID}, p[2]) :
                             Owns(root, b, t)}}

SetMax(S) == CHOOSE x \in S : \A y \in S : y <= x

AllToolNames == {"t0", "t1", "t2", "t3"}

\* C8: score decay with maximum over paths. The score SelectTools records
\* for a capability t is the maximum of S * 0.5^d over every candidate with
\* score S and every dependency path of d edges from it to a bundle owning
\* t; a capability no candidate reaches has no score.
C8_MaxOverPaths ==
    IndexPath =>
        /\ ~sel.diverged
        /\ \A t \in AllToolNames :
              IF PathScores(db, sel.results, t) = {}
              THEN t \notin DOMAIN sel.toolScores
              ELSE /\ t \in DOMAIN sel.toolScores
                   /\ sel.toolScores[t] = SetMax(PathScores(db, sel.results, t))

Sorted(out, scores) ==
    \A i \in DOMAIN out, j \in DOMAIN out :
        i < j => scores[out[i].Name] >= scores[out[j].Name]

\* C9 as stated: on the index path the returned list is in non-increasing
\* order of score, whether the merged set exceeds maxTools or not.
C9_OrderedAlways ==
    (IndexPath /\ ~sel.panicked) => Sorted(sel.out, sel.toolScores)

\* C9: on the index path, when the merged set exceeds maxTools (>= 0), the
\* returned list is in non-increasing order of the capabilities' scores.
C9_OrderedWhenCut ==
    (IndexPath /\ sel.cb.maxTools >= 0
               /\ Cardinality(DOMAIN sel.toolSet) > sel.cb.maxTools) =>
        /\ ~sel.panicked
        /\ Sorted(sel.out, sel.toolScores)

\* SelectTools cut three capabilities to two of different scores.
C9_Witness ==
    /\ IndexPath
    /\ Cardinality(DOMAIN sel.toolSet) = 3
    /\ Len(sel.out) = 2
    /\ sel.toolScores[sel.out[1].Name] > sel.toolScores[sel.out[2].Name]

====
